---- MODULE Spec2Model ----
(***************************************************************************)
(* Conversation orchestrator of flare_ai_rag (api/routes/base.py,          *)
(* BaseRouter): one generate_response turn per step, with the per-user     *)
(* history map and the pending-attestation flag as state.  Text is         *)
(* modelled by TLA+ strings, so joins and f-strings are real               *)
(* concatenations.                                                         *)
(*                                                                         *)
(* Bot Manager (bot_manager.py): async_start and the monitor_bots task as  *)
(* two processes over the BotManager object, with the deaths of the        *)
(* adapters as steps of the environment.  Application lifespan hook        *)
(* (main.py).  Text splitter (utils/splitter.py): one loop iteration per   *)
(* step over a text that is a sequence of characters.                      *)
(***************************************************************************)
EXTENDS Integers, Sequences, FiniteSets, TLC

VARIABLES
    histories,              \* BaseRouter.histories: dict user_id -> list of messages
    attestation_requested,  \* Vtpm.attestation_requested
    turn,                   \* observation of the last generate_response call
    requested_by,           \* user whose turn last set the flag ("" when it is clear)
    arrived,                \* per user: messages of the turns that reached line 86
    nturns,                 \* number of generate_response calls so far
    ndetours,               \* calls off the long conversation's straight path
    previous,               \* per user: history and message of the last turn stored
    bm,                     \* the BotManager object and the positions of its tasks
    app,                    \* the FastAPI application's lifespan
    split,                  \* the activation of data_split
    ingest,                 \* make_data: the walk over the files and data.json
    code,                   \* the activation of get_code_data
    fetch,                  \* a run of the contract fetcher (downloader/contracts.py)
    sync,                   \* the source repositories and the runs of update_sources
    http,                   \* the chat endpoint's last request and response
    allowed,                \* the telegram_allowed_users setting and its parsed lists
    doors                   \* the two orchestrators of create_app and their turns

vars ==
    <<histories, attestation_requested, turn, requested_by, arrived, nturns, ndetours,
      previous, bm, app, split, ingest, code, fetch, sync, http, allowed, doors>>

\* the ingestion utilities, the endpoint's cookie handling, the allow-list
\* and the pair of orchestrators
Others == <<ingest, code, fetch, sync, http, allowed, doors>>

----------------------------------------------------------------------------
(* Bounds of the model *)

\* generate_response calls in a behaviour of Spec
MaxTurns == 3
\* adapter deaths (Twitter thread ends, Telegram polling stops) in a behaviour
MaxFaults == 3
\* length of the text given to data_split
MaxLen == 18
\* largest chunk_size and overlap given to data_split
MaxChunkSize == 16
MaxOverlap == 4
\* files matched in one walk of make_data
MaxFiles == 2
\* contracts of contracts.json after its run of plain contracts
MaxTail == 2
\* list pages the explorer answers with contracts, and contracts on a page
MaxPages == 2
MaxPerPage == 2
\* runs of update_sources, and pushes to the remotes
MaxRuns == 3
MaxPushes == 2
\* identifiers the chat endpoint issues
MaxIssued == 2
\* characters of a telegram_allowed_users text
MaxSetting == 4

\* the overlap of a data_split call is at least -MaxNegative
MaxNegative == 1

\* generate_response calls begun at the front doors in a behaviour of SpecDoors
MaxDoorTurns == 2

\* generate_response calls in a behaviour of SpecLong
MaxLongTurns == 25
\* calls in a behaviour of SpecLong that raise, request attestation or come
\* from a second user
MaxDetours == 1
\* points held by each vector collection
NumDocs == 6

(* Program constants *)

\* history[-20:]
HistoryWindow == 20
\* semantic_search(classification_type, query, top_k=5)
TopKPrimary == 5
\* semantic_search(other_type, query, top_k=2)
TopKOther == 2

Users == {"A", "B"}
Messages == {"hello", "abcdefghij"}
LongUser == "A"

----------------------------------------------------------------------------
(* Python helpers *)

Min(a, b) == IF a <= b THEN a ELSE b

\* seq[-n:]
LastN(seq, n) ==
    IF Len(seq) <= n THEN seq ELSE SubSeq(seq, Len(seq) - n + 1, Len(seq))

\* sep.join(parts)
RECURSIVE JoinStr(_, _)
JoinStr(sep, parts) ==
    IF Len(parts) = 0 THEN ""
    ELSE IF Len(parts) = 1 THEN parts[1]
    ELSE parts[1] \o sep \o JoinStr(sep, Tail(parts))

\* classification.lower() on the labels that reach it
Lower(label) ==
    CASE label = "CODE" -> "code"
      [] label = "ANSWER" -> "answer"
      [] label = "REJECT" -> "reject"
      [] OTHER -> label

\* self.histories.get(user_id, [])
get_history(user_id) ==
    IF user_id \in DOMAIN histories THEN histories[user_id] ELSE <<>>

\* faulty variant: the value is stored under every key
DictSet_every_key(d, key, value) ==
    [k \in (DOMAIN d) \cup {key} |-> value]

\* d[key] = value on a dict
DictSet(d, key, value) ==
    [k \in (DOMAIN d) \cup {key} |-> IF k = key THEN value ELSE d[k]]

----------------------------------------------------------------------------
(* Collaborators: what each one can do when called *)

SemanticRouterResponse == {"RAG_ROUTER", "REQUEST_ATTESTATION", "CONVERSATIONAL"}

\* text returned by ai.generate for the semantic-router prompt, or a failure
SemanticOutcomes ==
    SemanticRouterResponse \cup {"SMALL_TALK", "render_error", "provider_error"}

\* value returned by query_router.route_query, or a failure
ClassificationOutcomes == {"CODE", "ANSWER", "REJECT", "MAYBE", "error"}

\* Vtpm.get_token: a token, or VtpmAttestationError carrying a reason
TokenOutcomes == {"token", "VtpmAttestationError"}
TokenText == "eyJ.token"
TokenErrorReason == "nonce too short"

RetrieverOutcomes == {"ok", "error_first", "error_second"}
CallOutcomes == {"ok", "error"}

ResponderText == "cited answer"
InstructionsText == "send one random message"
ChatText == "chat reply"

Default ==
    [tok |-> "token", sem |-> "CONVERSATIONAL", cls |-> "ANSWER",
     ret |-> "ok", rsp |-> "ok", gen |-> "ok", chat |-> "ok"]

\* the collaborators' behaviours during one turn; a field that the turn's
\* path cannot reach keeps its default
Environments ==
    {[Default EXCEPT !.tok = t] : t \in TokenOutcomes}
    \cup {[Default EXCEPT !.sem = s, !.chat = c] :
            s \in SemanticOutcomes \ {"RAG_ROUTER", "REQUEST_ATTESTATION"},
            c \in CallOutcomes}
    \cup {[Default EXCEPT !.sem = "REQUEST_ATTESTATION", !.gen = g] : g \in CallOutcomes}
    \cup {[Default EXCEPT !.sem = "RAG_ROUTER", !.cls = c] :
            c \in ClassificationOutcomes}
    \cup {[Default EXCEPT !.sem = "RAG_ROUTER", !.cls = c, !.ret = r] :
            c \in {"CODE", "ANSWER"}, r \in RetrieverOutcomes}
    \cup {[Default EXCEPT !.sem = "RAG_ROUTER", !.cls = c, !.rsp = p] :
            c \in {"CODE", "ANSWER"}, p \in CallOutcomes}

\* one call on a collaborator: its arguments and what it returned (ret is the
\* exception type when the call raised)
Call(fn, args, raised, ret) == [fn |-> fn, args |-> args, raised |-> raised, ret |-> ret]

Exc(type, arg) == [type |-> type, arg |-> arg]
NoExc == Exc("", "")

\* faulty variant: the exception is swallowed and an error text is returned
Raise_swallowed(exc, calls) ==
    [raised |-> FALSE, exc |-> NoExc, result |-> [response |-> exc.type], calls |-> calls,
     set_flag |-> FALSE]

\* a handler's return / raise
Return(result, calls, set_flag) ==
    [raised |-> FALSE, exc |-> NoExc, result |-> result, calls |-> calls,
     set_flag |-> set_flag]
Raise(exc, calls) ==
    [raised |-> TRUE, exc |-> exc, result |-> [exception |-> exc.type], calls |-> calls,
     set_flag |-> FALSE]

\* prompts.get_formatted_prompt(name, **kwargs): the rendered prompt
get_formatted_prompt(name, user_input, user_history) ==
    [template |-> name, user_input |-> user_input, user_history |-> user_history]

\* "\n".join(f"- {question}" for question in history)
format_history(history) ==
    JoinStr("\n", [i \in 1..Len(history) |-> "- " \o history[i]])

\* retriever.semantic_search(collection_type, query, top_k): the top_k most
\* similar points of the collection, most similar first
semantic_search(collection_type, query, top_k) ==
    [rank \in 1..Min(top_k, NumDocs) |->
        [collection |-> collection_type, query |-> query, rank |-> rank]]

----------------------------------------------------------------------------
(* BaseRouter *)

\* faulty variant: the text is used as the route without the enum conversion
semantic_route_unchecked(text) ==
    text

\* SemanticRouterResponse(route_response.text) inside get_semantic_route's try:
\* a text that is no member raises ValueError, which the except turns into
\* CONVERSATIONAL
semantic_route_of(text) ==
    IF text \in SemanticRouterResponse THEN text ELSE "CONVERSATIONAL"

\* get_semantic_route: the route, and the calls made to find it
get_semantic_route(message, user_id, history, env) ==
    LET formatted_history == format_history(history)
        prompt == get_formatted_prompt("semantic_router", message, formatted_history)
        fallback == "CONVERSATIONAL"
    IN  IF env.sem = "render_error"
        THEN [route |-> fallback,
              calls |-> <<Call("get_formatted_prompt", prompt, TRUE, "KeyError")>>]
        ELSE IF env.sem = "provider_error"
        THEN [route |-> fallback,
              calls |-> <<Call("get_formatted_prompt", prompt, FALSE, prompt),
                          Call("ai.generate", prompt, TRUE, "ProviderError")>>]
        ELSE [route |-> semantic_route_of(env.sem),
              calls |-> <<Call("get_formatted_prompt", prompt, FALSE, prompt),
                          Call("ai.generate", prompt, FALSE, env.sem)>>]

\* faulty variant: the membership test is gone
unknown_classification_ignored(classification) ==
    FALSE

\* classification not in ["CODE", "ANSWER", "REJECT"]
unknown_classification(classification) ==
    classification \notin {"CODE", "ANSWER", "REJECT"}

\* faulty variant: REJECT is not short-circuited
is_reject_never(classification) ==
    FALSE

\* classification == "REJECT"
is_reject(classification) ==
    classification = "REJECT"

\* faulty variant: the secondary search goes to the primary collection again
other_collection_same(classification_type) ==
    classification_type

\* "code" if classification_type == "answer" else "answer"
other_collection(classification_type) ==
    IF classification_type = "answer" THEN "code" ELSE "answer"

\* handle_rag_pipeline
handle_rag_pipeline(message, user_id, history, env) ==
    LET formatted_history == format_history(history)
        prompt == get_formatted_prompt("rag_router", message, formatted_history)
        render == Call("get_formatted_prompt", prompt, FALSE, prompt)
        classification == env.cls
    IN  IF env.cls = "error"
        THEN Raise(Exc("RouterError", "route_query"),
                   <<render, Call("route_query", prompt, TRUE, "RouterError")>>)
        ELSE
        LET classify == Call("route_query", prompt, FALSE, classification)
        IN  IF unknown_classification(classification)
            THEN Raise(Exc("ValueError", classification), <<render, classify>>)
            ELSE IF is_reject(classification)
            THEN Return([classification |-> "REJECT",
                         response |-> "The query is out of scope."],
                        <<render, classify>>, FALSE)
            ELSE
            LET classification_type == Lower(classification)
                other_type == other_collection(classification_type)
                query == JoinStr("\n\n", history) \o "\n\n" \o message
                args1 == [collection_type |-> classification_type, query |-> query,
                          top_k |-> TopKPrimary]
                args2 == [collection_type |-> other_type, query |-> query,
                          top_k |-> TopKOther]
                retrieved_docs == semantic_search(classification_type, query, TopKPrimary)
                retrieved_docs_other == semantic_search(other_type, query, TopKOther)
                documents == retrieved_docs \o retrieved_docs_other
                search1 == Call("semantic_search", args1, FALSE, retrieved_docs)
                search2 == Call("semantic_search", args2, FALSE, retrieved_docs_other)
                rargs == [query |-> message, chat_history |-> history,
                          retrieved_documents |-> documents]
            IN  IF env.ret = "error_first"
                THEN Raise(Exc("RetrieverError", "semantic_search"),
                           <<render, classify,
                             Call("semantic_search", args1, TRUE, "RetrieverError")>>)
                ELSE IF env.ret = "error_second"
                THEN Raise(Exc("RetrieverError", "semantic_search"),
                           <<render, classify, search1,
                             Call("semantic_search", args2, TRUE, "RetrieverError")>>)
                ELSE IF env.rsp = "error"
                THEN Raise(Exc("ResponderError", "generate_response"),
                           <<render, classify, search1, search2,
                             Call("responder.generate_response", rargs, TRUE,
                                  "ResponderError")>>)
                ELSE Return([classification |-> classification,
                             response |-> ResponderText],
                            <<render, classify, search1, search2,
                              Call("responder.generate_response", rargs, FALSE,
                                   ResponderText)>>,
                            FALSE)

\* faulty variant: the instructions are returned without setting the flag
handle_attestation_flag_unset(message, user_id, history, env) ==
    LET prompt == get_formatted_prompt("request_attestation", "", "")
        render == Call("get_formatted_prompt", prompt, FALSE, prompt)
    IN  IF env.gen = "error"
        THEN Raise(Exc("ProviderError", "generate"),
                   <<render, Call("ai.generate", prompt, TRUE, "ProviderError")>>)
        ELSE Return([response |-> InstructionsText],
                    <<render, Call("ai.generate", prompt, FALSE, InstructionsText)>>,
                    FALSE)

\* faulty variant: the flag is set before the instructions are generated
handle_attestation_flag_first(message, user_id, history, env) ==
    LET prompt == get_formatted_prompt("request_attestation", "", "")
        render == Call("get_formatted_prompt", prompt, FALSE, prompt)
    IN  IF env.gen = "error"
        THEN [Raise(Exc("ProviderError", "generate"),
                    <<render, Call("ai.generate", prompt, TRUE, "ProviderError")>>)
                 EXCEPT !.set_flag = TRUE]
        ELSE Return([response |-> InstructionsText],
                    <<render, Call("ai.generate", prompt, FALSE, InstructionsText)>>,
                    TRUE)

\* handle_attestation
handle_attestation(message, user_id, history, env) ==
    LET prompt == get_formatted_prompt("request_attestation", "", "")
        render == Call("get_formatted_prompt", prompt, FALSE, prompt)
    IN  IF env.gen = "error"
        THEN Raise(Exc("ProviderError", "generate"),
                   <<render, Call("ai.generate", prompt, TRUE, "ProviderError")>>)
        ELSE Return([response |-> InstructionsText],
                    <<render, Call("ai.generate", prompt, FALSE, InstructionsText)>>,
                    TRUE)

\* handle_conversation
handle_conversation(message, user_id, history, env) ==
    LET args == [msg |-> message, user_id |-> user_id]
    IN  IF env.chat = "error"
        THEN Raise(Exc("ProviderError", "send_message"),
                   <<Call("ai.send_message", args, TRUE, "ProviderError")>>)
        ELSE Return([response |-> ChatText],
                    <<Call("ai.send_message", args, FALSE, ChatText)>>, FALSE)

\* the key of route_message's handlers dict that the route selects
handler_of(route) ==
    CASE route = "RAG_ROUTER" -> "handle_rag_pipeline"
      [] route = "REQUEST_ATTESTATION" -> "handle_attestation"
      [] route = "CONVERSATIONAL" -> "handle_conversation"
      [] OTHER -> ""

\* route_message
route_message(route, message, user_id, history, env) ==
    LET handler == handler_of(route)
    IN  CASE handler = "handle_rag_pipeline" ->
                handle_rag_pipeline(message, user_id, history, env)
          [] handler = "handle_attestation" ->
                handle_attestation(message, user_id, history, env)
          [] handler = "handle_conversation" ->
                handle_conversation(message, user_id, history, env)
          [] OTHER -> Return([response |-> "Unsupported route"], <<>>, FALSE)

\* faulty variant: the flag is cleared inside the try, so a failed issuance keeps it
attestation_payload_flag_kept(message, env) ==
    LET failed == env.tok = "VtpmAttestationError"
        resp == IF failed
                THEN "The attestation failed with error:\n" \o TokenErrorReason
                ELSE TokenText
    IN  [result |-> [response |-> resp],
         calls |-> <<Call("get_token", <<message>>, failed,
                          IF failed THEN "VtpmAttestationError" ELSE TokenText)>>,
         flag |-> failed,
         store |-> FALSE]

\* faulty variant: no early return, the payload falls through to the history update
attestation_payload_stored(message, env) ==
    LET failed == env.tok = "VtpmAttestationError"
        resp == IF failed
                THEN "The attestation failed with error:\n" \o TokenErrorReason
                ELSE TokenText
    IN  [result |-> [response |-> resp],
         calls |-> <<Call("get_token", <<message>>, failed,
                          IF failed THEN "VtpmAttestationError" ELSE TokenText)>>,
         flag |-> FALSE,
         store |-> TRUE]

\* generate_response, lines 72-78: the message is the attestation payload
attestation_payload(message, env) ==
    LET failed == env.tok = "VtpmAttestationError"
        resp == IF failed
                THEN "The attestation failed with error:\n" \o TokenErrorReason
                ELSE TokenText
    IN  [result |-> [response |-> resp],
         calls |-> <<Call("get_token", <<message>>, failed,
                          IF failed THEN "VtpmAttestationError" ELSE TokenText)>>,
         flag |-> FALSE,
         store |-> FALSE]

\* faulty variant: the new message is put in front
stored_history_newest_first(history, message) ==
    <<message>> \o LastN(history, HistoryWindow)

\* generate_response, line 86: the list stored for the user after a routed turn
stored_history(history, message) ==
    LastN(history, HistoryWindow) \o <<message>>

\* generate_response: everything one call does, as a record
Turn(message, user_id, env) ==
    LET history == get_history(user_id)
        base == [user_id |-> user_id, message |-> message, history |-> history,
                 pending |-> attestation_requested, requested_by |-> requested_by,
                 previous |-> previous[user_id]]
    IN  IF attestation_requested
        THEN LET a == attestation_payload(message, env)
             IN  base @@ [branch |-> "attestation", sem |-> "", route |-> "",
                          handler |-> "", raised |-> FALSE, exc |-> NoExc,
                          result |-> a.result, calls |-> a.calls,
                          flag |-> a.flag, store |-> a.store]
        ELSE LET sr == get_semantic_route(message, user_id, history, env)
                 route == sr.route
                 h == route_message(route, message, user_id, history, env)
             IN  base @@ [branch |-> "routed", sem |-> env.sem, route |-> route,
                          handler |-> handler_of(route),
                          raised |-> h.raised, exc |-> h.exc,
                          result |-> h.result, calls |-> sr.calls \o h.calls,
                          flag |-> (h.set_flag \/ attestation_requested),
                          store |-> ~h.raised]

NoPrevious == [history |-> <<>>, message |-> ""]

NoTurn ==
    [user_id |-> "", message |-> "", history |-> <<>>, pending |-> FALSE,
     requested_by |-> "", previous |-> NoPrevious, branch |-> "none", sem |-> "", route |-> "", handler |-> "",
     raised |-> FALSE, exc |-> NoExc, result |-> [response |-> ""], calls |-> <<>>,
     flag |-> FALSE, store |-> FALSE]

----------------------------------------------------------------------------
(* The other components before they run *)

\* the settings the Bot Manager reads; a text field is TRUE when it is not empty
SettingsFields ==
    {"enable_twitter", "x_api_key", "x_api_key_secret", "x_access_token",
     "x_access_token_secret", "enable_telegram", "telegram_api_token"}

\* settings.py defaults: both adapters disabled, every credential empty
DefaultSettings == [f \in SettingsFields |-> FALSE]

\* BotManager(router) after __init__; the fields from main on are the
\* positions of async_start and of the monitor task and the counts of the
\* calls made so far
BotManager(settings) ==
    [settings |-> settings,
     active_bots |-> <<>>,
     running |-> FALSE,
     telegram_bot |-> "None",
     polling |-> FALSE,              \* telegram_bot.application.updater.running
     twitter_thread |-> "None",      \* "None", "alive" or "dead"
     main |-> "none",
     monitor |-> "none",
     cancelled |-> FALSE,            \* async_start received CancelledError
     monitor_cancels |-> 0,          \* calls of monitor_task.cancel()
     doomed |-> FALSE,               \* from now on every restart fails
     faults |-> 0,                   \* adapter deaths so far
     threads |-> 0,                  \* threads started
     tasks |-> 0,                    \* polling and monitor tasks created
     twitter_starts |-> 0,           \* calls of start_twitter_bot
     telegram_starts |-> 0,          \* calls of start_telegram_bot
     telegram_shutdowns |-> 0,       \* calls of telegram_bot.shutdown()
     shutdowns |-> 0,                \* calls of BotManager.shutdown
     twitter_deaths_seen |-> 0,      \* deaths found by _check_twitter_status
     telegram_faults_seen |-> 0,     \* unhealthy findings of _check_telegram_status
     twitter_restart |-> "none",     \* outcome of the monitor's last Twitter restart
     telegram_restart |-> "none",    \* outcome of the monitor's last Telegram restart
     last_start |-> "none"]          \* return value of the last start_*_bot call

\* the application before its lifespan starts; bm is the value bound by the hook
Application == [phase |-> "created", bm |-> "unbound", raised |-> ""]

\* the activation record of data_split(content, seps, chunk_size, overlap)
SplitCall(content, seps, chunk_size, overlap) ==
    [pc |-> "call", content |-> content, seps |-> seps, chunk_size |-> chunk_size,
     overlap |-> overlap, i |-> 0, r |-> <<>>, windows |-> <<>>, starts |-> <<>>]

\* data_split not called
NoSplit == [SplitCall(<<>>, <<>>, 0, 0) EXCEPT !.pc = "idle"]

\* make_data before it runs: the files walked so far, the outcome of
\* get_data for each, the list data and the content of data.json
NoIngest ==
    [pc |-> "idle", walked |-> <<>>, outcomes |-> <<>>, data |-> <<>>,
     data_json |-> <<>>]

\* get_code_data before it runs: the items read so far and the list r
NoCode == [pc |-> "idle", bulk |-> 0, read |-> 0, tail |-> <<>>, r |-> <<>>]

\* the contract fetcher before it runs: the page to ask for, the addresses
\* listed, the next address to fetch, and the requests and sleeps made
NoFetch ==
    [pc |-> "idle", page |-> 0, addresses |-> <<>>, next |-> 1, contracts |-> <<>>,
     events |-> <<>>, requested |-> <<>>, written |-> FALSE]

\* no source configured and update_sources never run
\* sources.json: the names of the sources
Sources == <<"docs", "sdk">>
\* the commit a remote starts with, as the set of files it touches
InitialCommit == {"a", "b"}
\* a source that was never cloned: its path does not exist
NoRepo == [exists |-> FALSE, local |-> 0, origin |-> 0]
NoSync ==
    [pc |-> "idle", i |-> 1, changed_files |-> <<>>, handled |-> <<>>,
     repos |-> [s \in DOMAIN Sources |-> NoRepo],
     upstream |-> [s \in DOMAIN Sources |-> <<InitialCommit>>],
     stale |-> [s \in DOMAIN Sources |-> FALSE],
     runs |-> <<>>, pushes |-> 0]

\* no request served by the chat endpoint
NoRequest == [log |-> <<>>, issued |-> 0]

\* the setting telegram_allowed_users at its default and nothing parsed
NoAllowed ==
    [telegram_allowed_users |-> <<>>,
     read |-> FALSE, user_ids |-> <<>>, started |-> FALSE, allowed_user_ids |-> <<>>]

\* create_app not run: no orchestrator, no Vtpm object, no histories dict,
\* no turn begun or completed
NoDoors ==
    [pc |-> "idle", routers |-> <<>>, vtpm |-> <<>>, dicts |-> <<>>,
     local |-> <<>>, begun |-> 0, log |-> <<>>]

\* the ingestion utilities and the endpoint before they run
UtilitiesInit ==
    /\ ingest = NoIngest
    /\ code = NoCode
    /\ fetch = NoFetch
    /\ sync = NoSync
    /\ http = NoRequest

OthersInit ==
    /\ UtilitiesInit
    /\ allowed = NoAllowed
    /\ doors = NoDoors

----------------------------------------------------------------------------
(* State machine *)

\* BaseRouter.__init__
RouterInit ==
    /\ histories = <<>>
    /\ attestation_requested = FALSE
    /\ turn = NoTurn
    /\ requested_by = ""
    /\ arrived = [u \in Users |-> <<>>]
    /\ nturns = 0
    /\ ndetours = 0
    /\ previous = [u \in Users |-> NoPrevious]

Init ==
    /\ RouterInit
    /\ bm = BotManager(DefaultSettings)
    /\ app = Application
    /\ split = NoSplit
    /\ OthersInit

\* one call of BaseRouter.generate_response(message, user_id)
generate_response(message, user_id, env) ==
    /\ turn' = Turn(message, user_id, env)
    /\ histories' = IF turn'.store
                    THEN DictSet(histories, user_id,
                                 stored_history(turn'.history, message))
                    ELSE histories
    /\ attestation_requested' = turn'.flag
    /\ requested_by' = IF ~turn'.flag THEN ""
                       ELSE IF attestation_requested THEN requested_by
                       ELSE user_id
    /\ arrived' = IF turn'.store
                  THEN [arrived EXCEPT ![user_id] = @ \o <<message>>]
                  ELSE arrived
    /\ nturns' = nturns + 1
    /\ ndetours' = ndetours
                   + (IF \/ turn'.raised
                          \/ turn'.route = "REQUEST_ATTESTATION"
                          \/ user_id # LongUser
                       THEN 1 ELSE 0)
    /\ previous' = IF turn'.store
                   THEN [previous EXCEPT ![user_id] =
                            [history |-> turn'.history, message |-> message]]
                   ELSE previous

\* any user sends any message
Next ==
    /\ nturns < MaxTurns
    /\ \E user_id \in Users, message \in Messages, env \in Environments :
          generate_response(message, user_id, env)
    /\ UNCHANGED <<bm, app, split, Others>>

Spec == Init /\ [][Next]_vars

\* the n-th message of a long conversation
NumberedMessage(n) == "m" \o ToString(n)

\* the collaborators' behaviours in a long conversation: one of each kind of
\* turn (stored, raised, attestation requested, token issued or refused)
LongEnvironments ==
    {Default,
     [Default EXCEPT !.tok = "VtpmAttestationError"],
     [Default EXCEPT !.chat = "error"],
     [Default EXCEPT !.sem = "REQUEST_ATTESTATION"],
     [Default EXCEPT !.sem = "RAG_ROUTER"],
     [Default EXCEPT !.sem = "RAG_ROUTER", !.cls = "MAYBE"]}

\* a long run of distinct messages, nearly all of them from one user; the
\* other users' turns meet no failing collaborator
NextLong ==
    /\ nturns < MaxLongTurns
    /\ \E user_id \in Users :
          \E env \in (IF user_id = LongUser THEN LongEnvironments ELSE {Default}) :
             /\ generate_response(NumberedMessage(nturns + 1), user_id, env)
             /\ ndetours' <= MaxDetours
    /\ UNCHANGED <<bm, app, split, Others>>

SpecLong == Init /\ [][NextLong]_vars

----------------------------------------------------------------------------
(* Bot Manager: starting the adapters *)

\* value in list
Contains(list, value) == \E k \in DOMAIN list : list[k] = value

\* list.count(value)
Count(list, value) == Cardinality({k \in DOMAIN list : list[k] = value})

\* list.remove(value): the list without its first occurrence of value (the
\* callers test membership first, so ValueError does not arise)
RECURSIVE remove(_, _)
remove(list, value) ==
    IF list = <<>> THEN <<>>
    ELSE IF Head(list) = value THEN Tail(list)
    ELSE <<Head(list)>> \o remove(Tail(list), value)

\* faulty variant: the access token secret is not among the required credentials
twitter_credentials_without_secret(settings) ==
    /\ settings.x_api_key
    /\ settings.x_api_key_secret
    /\ settings.x_access_token

\* all([x_api_key, x_api_key_secret, x_access_token, x_access_token_secret])
twitter_credentials(settings) ==
    /\ settings.x_api_key
    /\ settings.x_api_key_secret
    /\ settings.x_access_token
    /\ settings.x_access_token_secret

\* BotManager.start_twitter_bot; constructed: TwitterConfig, TwitterBot and
\* the thread were built and started without an exception
start_twitter_bot(b, constructed) ==
    LET called == [b EXCEPT !.twitter_starts = @ + 1] IN
    IF ~b.settings.enable_twitter
    THEN [bm |-> [called EXCEPT !.last_start = "False"], ret |-> FALSE]
    ELSE IF ~twitter_credentials(b.settings)
    THEN [bm |-> [called EXCEPT !.last_start = "False"], ret |-> FALSE]
    ELSE IF ~constructed
    THEN [bm |-> [called EXCEPT !.last_start = "False"], ret |-> FALSE]
    ELSE [bm |-> [called EXCEPT !.twitter_thread = "alive",
                                !.threads = @ + 1,
                                !.active_bots = Append(@, "Twitter"),
                                !.last_start = "True"],
          ret |-> TRUE]

\* what a start of the Telegram adapter meets
TelegramOutcomes == {"ok", "constructor_raises", "initialize_raises"}

\* await self.telegram_bot.shutdown(), when there is a bot
telegram_shutdown(b) ==
    IF b.telegram_bot = "None" THEN b
    ELSE [b EXCEPT !.polling = FALSE, !.telegram_shutdowns = @ + 1]

\* BotManager.start_telegram_bot
start_telegram_bot(b, outcome) ==
    LET called == [b EXCEPT !.telegram_starts = @ + 1] IN
    IF ~b.settings.enable_telegram
    THEN [bm |-> [called EXCEPT !.last_start = "False"], ret |-> FALSE]
    ELSE IF ~b.settings.telegram_api_token
    THEN [bm |-> [called EXCEPT !.last_start = "False"], ret |-> FALSE]
    ELSE IF outcome = "constructor_raises"
    THEN [bm |-> telegram_shutdown([called EXCEPT !.last_start = "False"]),
          ret |-> FALSE]
    ELSE IF outcome = "initialize_raises"
    THEN [bm |-> telegram_shutdown([called EXCEPT !.telegram_bot = "bot",
                                                  !.polling = FALSE,
                                                  !.last_start = "False"]),
          ret |-> FALSE]
    ELSE [bm |-> [called EXCEPT !.telegram_bot = "bot",
                                !.polling = TRUE,
                                !.tasks = @ + 1,
                                !.active_bots = Append(@, "Telegram"),
                                !.last_start = "True"],
          ret |-> TRUE]

----------------------------------------------------------------------------
(* Bot Manager: the monitor *)

\* faulty variant: the dead thread's entry stays in the active list
check_twitter_status_keeps_entry(b, constructed) ==
    IF b.twitter_thread = "dead"
    THEN LET started == start_twitter_bot(
                            [b EXCEPT !.twitter_deaths_seen = @ + 1], constructed)
         IN [started.bm EXCEPT !.twitter_restart =
                                   IF started.ret THEN "ok" ELSE "failed"]
    ELSE b

\* BotManager._check_twitter_status
check_twitter_status(b, constructed) ==
    IF b.twitter_thread = "dead"
    THEN LET started == start_twitter_bot(
                            [b EXCEPT !.twitter_deaths_seen = @ + 1,
                                      !.active_bots = remove(@, "Twitter")],
                            constructed)
         IN [started.bm EXCEPT !.twitter_restart =
                                   IF started.ret THEN "ok" ELSE "failed"]
    ELSE b

\* telegram_bot and application and updater and updater.running
telegram_healthy(b) == b.telegram_bot # "None" /\ b.polling

\* BotManager._check_telegram_status
check_telegram_status(b, outcome) ==
    IF ~telegram_healthy(b)
    THEN LET started == start_telegram_bot(
                            telegram_shutdown(
                                [b EXCEPT !.telegram_faults_seen = @ + 1]),
                            outcome)
         IN IF started.ret
            THEN [started.bm EXCEPT !.telegram_restart = "ok"]
            ELSE [started.bm EXCEPT !.telegram_restart = "failed",
                                    !.active_bots = remove(@, "Telegram")]
    ELSE b

\* faulty variant: the loop is left without the finally clause
monitor_exit_without_finally(b) == [b EXCEPT !.monitor = "done"]

\* monitor_bots returns or is cancelled: finally self.running = False
monitor_exit(b) == [b EXCEPT !.monitor = "done", !.running = FALSE]

\* one pass of the body of the while loop of monitor_bots, up to its sleep
monitor_iteration(b, tg_outcome, tw_constructed) ==
    IF ~(b.running /\ b.active_bots # <<>>)
    THEN monitor_exit(b)
    ELSE LET b1 == IF Contains(b.active_bots, "Telegram") /\ b.telegram_bot # "None"
                   THEN check_telegram_status(b, tg_outcome)
                   ELSE b
             b2 == IF Contains(b1.active_bots, "Twitter")
                   THEN check_twitter_status(b1, tw_constructed)
                   ELSE b1
         IN IF b2.active_bots = <<>>
            THEN monitor_exit(b2)
            ELSE [b2 EXCEPT !.monitor = "sleep"]

\* BotManager.shutdown
shutdown(b) ==
    [telegram_shutdown([b EXCEPT !.running = FALSE]) EXCEPT !.shutdowns = @ + 1]

----------------------------------------------------------------------------
(* Bot Manager: async_start, the monitor task and the adapters as processes *)

\* asyncio.run(coroutine): refused inside a running event loop
asyncio_run(loop_running) == IF loop_running THEN "RuntimeError" ELSE "run"

\* start_bot_manager(router): the coroutine async_start is entered when
\* asyncio.run accepts it; a RuntimeError is logged by except Exception
start_bot_manager(b, loop_running) ==
    IF asyncio_run(loop_running) = "run" THEN [b EXCEPT !.main = "start_twitter"]
    ELSE b

\* every setting of the fields the Bot Manager reads
Settings == [SettingsFields -> BOOLEAN]

\* the orchestrator and the application stay as constructed
Idle == UNCHANGED <<histories, attestation_requested, turn, requested_by, arrived,
                    nturns, ndetours, previous, app, split, Others>>

\* start_bot_manager called from synchronous code
StartBotManager ==
    /\ bm.main = "none"
    /\ bm' = start_bot_manager(bm, FALSE)
    /\ Idle

\* async_start: bot_manager.start_twitter_bot()
AsyncStartTwitter ==
    /\ bm.main = "start_twitter"
    /\ \E constructed \in BOOLEAN :
          bm' = [start_twitter_bot(bm, constructed).bm EXCEPT !.main = "start_telegram"]
    /\ Idle

\* async_start: await bot_manager.start_telegram_bot()
AsyncStartTelegram ==
    /\ bm.main = "start_telegram"
    /\ \E outcome \in TelegramOutcomes :
          bm' = [start_telegram_bot(bm, outcome).bm EXCEPT !.main = "decide"]
    /\ Idle

\* async_start: if bot_manager.active_bots: create the monitor task and wait
\* on an event nobody sets; else return
AsyncSupervise ==
    /\ bm.main = "decide"
    /\ bm' = IF bm.active_bots # <<>>
             THEN [bm EXCEPT !.main = "waiting", !.monitor = "created",
                             !.tasks = @ + 1]
             ELSE [bm EXCEPT !.main = "returned"]
    /\ Idle

\* the task running async_start is cancelled while it waits
Cancel ==
    /\ bm.main = "waiting"
    /\ bm' = [bm EXCEPT !.main = "finally", !.cancelled = TRUE]
    /\ Idle

\* async_start, finally: monitor_task.cancel()
AsyncCancelMonitor ==
    /\ bm.main = "finally"
    /\ bm' = [bm EXCEPT !.main = "await_monitor", !.monitor_cancels = @ + 1]
    /\ Idle

\* faulty variant: shutdown does not wait for the monitor task
monitor_awaited_never(b) == TRUE

\* async_start, finally: await monitor_task returns once the task is done
monitor_awaited(b) == b.monitor = "done"

\* async_start, finally: await bot_manager.shutdown() after the monitor task
AsyncShutdown ==
    /\ bm.main = "await_monitor"
    /\ monitor_awaited(bm)
    /\ bm' = [shutdown(bm) EXCEPT !.main = "returned"]
    /\ Idle

\* the monitor task starts: self.running = True
MonitorBegin ==
    /\ bm.monitor = "created"
    /\ bm.monitor_cancels = 0
    /\ bm' = [bm EXCEPT !.monitor = "check", !.running = TRUE]
    /\ Idle

\* one pass of the monitor loop; after the adapters are doomed no restart
\* succeeds
MonitorIterate ==
    /\ bm.monitor = "check"
    /\ \E tg_outcome \in TelegramOutcomes, tw_constructed \in BOOLEAN :
          /\ bm.doomed => (tg_outcome # "ok" /\ ~tw_constructed)
          /\ bm' = monitor_iteration(bm, tg_outcome, tw_constructed)
    /\ Idle

\* await asyncio.sleep(5) returns
MonitorWake ==
    /\ bm.monitor = "sleep"
    /\ bm.monitor_cancels = 0
    /\ bm' = [bm EXCEPT !.monitor = "check"]
    /\ Idle

\* CancelledError reaches the monitor task where it is suspended; the
\* passes of the loop are steps without suspension in this model
MonitorCancelled ==
    /\ bm.monitor \in {"created", "sleep"}
    /\ bm.monitor_cancels > 0
    /\ bm' = monitor_exit(bm)
    /\ Idle

\* the Twitter thread ends
TwitterThreadDies ==
    /\ bm.twitter_thread = "alive"
    /\ bm.faults < MaxFaults \/ bm.doomed
    /\ bm' = [bm EXCEPT !.twitter_thread = "dead", !.faults = @ + 1]
    /\ Idle

\* the Telegram updater stops running
TelegramPollingStops ==
    /\ bm.telegram_bot # "None"
    /\ bm.polling
    /\ bm.faults < MaxFaults \/ bm.doomed
    /\ bm' = [bm EXCEPT !.polling = FALSE, !.faults = @ + 1]
    /\ Idle

\* from here on the environment lets no adapter start again
Doom ==
    /\ bm.monitor \in {"created", "check", "sleep"}
    /\ ~bm.doomed
    /\ bm' = [bm EXCEPT !.doomed = TRUE]
    /\ Idle

MonitorStep == MonitorBegin \/ MonitorIterate \/ MonitorWake \/ MonitorCancelled

AdapterDeath == TwitterThreadDies \/ TelegramPollingStops

BotsInit ==
    /\ RouterInit
    /\ \E settings \in Settings : bm = BotManager(settings)
    /\ app = Application
    /\ split = NoSplit
    /\ OthersInit

BotsNext ==
    \/ StartBotManager
    \/ AsyncStartTwitter
    \/ AsyncStartTelegram
    \/ AsyncSupervise
    \/ Cancel
    \/ AsyncCancelMonitor
    \/ AsyncShutdown
    \/ MonitorBegin
    \/ MonitorIterate
    \/ MonitorWake
    \/ MonitorCancelled
    \/ TwitterThreadDies
    \/ TelegramPollingStops
    \/ Doom

SpecBots == BotsInit /\ [][BotsNext]_vars

\* the event loop runs the monitor task whenever it can take a step, and
\* adapters that are doomed do die
SpecBotsFair ==
    /\ SpecBots
    /\ WF_vars(MonitorStep)
    /\ WF_vars(bm.doomed /\ AdapterDeath)

----------------------------------------------------------------------------
(* Application lifespan *)

\* start_bot_manager has no return statement
start_bot_manager_result == "None"

\* bm.cancel(): an attribute lookup on the value the hook bound at startup
cancel(handle) == IF handle = "None" THEN "AttributeError" ELSE ""

\* both adapters enabled, every credential present
ConfiguredSettings == [f \in SettingsFields |-> TRUE]

\* lifespan, before yield: bm = start_bot_manager(bot_router), called by the
\* server inside its running event loop
LifespanStartup ==
    /\ app.phase = "created"
    /\ bm' = start_bot_manager(bm, TRUE)
    /\ app' = [app EXCEPT !.phase = "serving", !.bm = start_bot_manager_result]
    /\ UNCHANGED <<histories, attestation_requested, turn, requested_by, arrived,
                   nturns, ndetours, previous, split, Others>>

\* the application serves a chat request
Serve ==
    /\ app.phase = "serving"
    /\ Next

\* lifespan, after yield: bm.cancel()
LifespanShutdown ==
    /\ app.phase = "serving"
    /\ app' = [app EXCEPT !.phase = "stopped", !.raised = cancel(app.bm)]
    /\ UNCHANGED <<histories, attestation_requested, turn, requested_by, arrived,
                   nturns, ndetours, previous, bm, split, Others>>

AppInit ==
    /\ RouterInit
    /\ \E settings \in {DefaultSettings, ConfiguredSettings} :
          bm = BotManager(settings)
    /\ app = Application
    /\ split = NoSplit
    /\ OthersInit

AppNext == LifespanStartup \/ Serve \/ LifespanShutdown

SpecApp == AppInit /\ [][AppNext]_vars

----------------------------------------------------------------------------
(* Text splitter: text is a sequence of characters, indices count from 0 *)

Max(a, b) == IF a >= b THEN a ELSE b

\* the characters str.strip() removes, of those the texts here are made of
Whitespace == {" ", "\n"}

\* a slice bound as Python reads it: negative counts from the end, and the
\* bound is clamped to the text
SliceBound(k, n) == IF k < 0 THEN Max(k + n, 0) ELSE Min(k, n)

\* text[a:b]
Slice(text, a, b) ==
    SubSeq(text, SliceBound(a, Len(text)) + 1, SliceBound(b, Len(text)))

\* the index of the first character at or after k that is not in chars
RECURSIVE first_kept(_, _, _)
first_kept(text, chars, k) ==
    IF k > Len(text) \/ text[k] \notin chars THEN k
    ELSE first_kept(text, chars, k + 1)

\* the index of the last character at or before k that is not in chars
RECURSIVE last_kept(_, _, _)
last_kept(text, chars, k) ==
    IF k < 1 \/ text[k] \notin chars THEN k
    ELSE last_kept(text, chars, k - 1)

\* text.strip()
strip(text) ==
    SubSeq(text, first_kept(text, Whitespace, 1), last_kept(text, Whitespace, Len(text)))

\* text.find(sep, start, end): the lowest index in text[start:end] at which
\* sep lies wholly inside the slice, or -1
find(text, sep, start, end) ==
    LET n == Len(text)
        lo == IF start < 0 THEN Max(start + n, 0) ELSE start
        hi == SliceBound(end, n)
        hits == {k \in lo .. (hi - Len(sep)) :
                     SubSeq(text, k + 1, k + Len(sep)) = sep}
    IN IF hits = {} THEN -1 ELSE CHOOSE k \in hits : \A m \in hits : k <= m

\* for sep in seps: j = content.find(sep, start, end); if j != -1: break
RECURSIVE first_found(_, _, _, _)
first_found(text, seps, start, end) ==
    IF seps = <<>> THEN -1
    ELSE LET j == find(text, Head(seps), start, end) IN
         IF j # -1 THEN j ELSE first_found(text, Tail(seps), start, end)

\* the separators tried after the caller's: "\n\n", "\n", " "
DefaultSeps == <<<<"\n", "\n">>, <<"\n">>, <<" ">>>>

\* faulty variant: the overlap may be up to half of the chunk
overlap_allowed_half(chunk_size, overlap) == overlap * 2 <= chunk_size

\* assert overlap * 4 <= chunk_size
overlap_allowed(chunk_size, overlap) == overlap * 4 <= chunk_size

\* faulty variant: the cut is at the earliest separator of the window, whatever
\* its place in the list
cut_earliest(content, seps, i, chunk_size, overlap) ==
    LET found == {find(content, seps[p], i + chunk_size - 2 * overlap, i + chunk_size) :
                     p \in DOMAIN seps} \ {-1}
    IN IF found = {} THEN i + chunk_size - overlap
       ELSE CHOOSE j \in found : \A m \in found : j <= m

\* the end j of the chunk that starts at i
cut(content, seps, i, chunk_size, overlap) ==
    LET j == first_found(content, seps, i + chunk_size - 2 * overlap, i + chunk_size)
    IN IF j = -1 THEN i + chunk_size - overlap ELSE j

\* faulty variant: the next chunk starts an overlap after the cut
next_start_after_cut(content, seps, j, overlap) ==
    LET ii == j + overlap
        jj == first_found(content, seps, ii - overlap \div 4, ii + overlap \div 4)
    IN IF jj = -1 THEN ii ELSE jj

\* the start of the chunk that follows a cut at j
next_start(content, seps, j, overlap) ==
    LET ii == j - overlap
        jj == first_found(content, seps, ii - overlap \div 4, ii + overlap \div 4)
    IN IF jj = -1 THEN ii ELSE jj

\* the orchestrator, the Bot Manager and the application stay as constructed
OnlySplit == UNCHANGED <<histories, attestation_requested, turn, requested_by,
                         arrived, nturns, ndetours, previous, bm, app, Others>>

\* data_split is entered: the assertion, r = [], the default separators, i = 0
SplitEnter ==
    /\ split.pc = "call"
    /\ split' = IF overlap_allowed(split.chunk_size, split.overlap)
                THEN [split EXCEPT !.pc = "loop", !.seps = @ \o DefaultSeps]
                ELSE [split EXCEPT !.pc = "failed"]
    /\ OnlySplit

\* one iteration of the while loop; a run that makes more chunks than the
\* text has characters is followed no further
SplitIterate ==
    /\ split.pc = "loop"
    /\ Len(split.content) - split.i > split.chunk_size
    /\ Len(split.r) <= MaxLen
    /\ LET j == cut(split.content, split.seps, split.i, split.chunk_size,
                    split.overlap)
       IN split' = [split EXCEPT
                       !.r = Append(@, strip(Slice(split.content, split.i, j))),
                       !.windows = Append(@, <<split.i, j>>),
                       !.starts = Append(@, split.i),
                       !.i = next_start(split.content, split.seps, j, split.overlap)]
    /\ OnlySplit

\* the loop ends: r.append(content[i:].strip()); return r
SplitReturn ==
    /\ split.pc = "loop"
    /\ ~(Len(split.content) - split.i > split.chunk_size)
    /\ split' = [split EXCEPT
                    !.pc = "done",
                    !.r = Append(@, strip(Slice(split.content, split.i,
                                                Len(split.content)))),
                    !.windows = Append(@, <<split.i, Len(split.content)>>)]
    /\ OnlySplit

\* n times the letter a
Letters(n) == [k \in 1 .. n |-> "a"]

\* runs of whitespace of up to two characters
Gaps == {<<>>} \cup {<<c>> : c \in Whitespace}
               \cup {<<c, d>> : c \in Whitespace, d \in Whitespace}

\* the texts given to data_split: letters around one run of whitespace
Contents ==
    {Letters(p) \o gap \o Letters(q) :
        p \in 0 .. MaxLen, gap \in Gaps, q \in 0 .. MaxLen}

\* the separator lists of the callers: none, or one of their own
CallerSeps == {<<>>, <<<<"a", "a">>>>}

SplitInit ==
    /\ RouterInit
    /\ bm = BotManager(DefaultSettings)
    /\ app = Application
    /\ \E content \in {c \in Contents : Len(c) <= MaxLen}, seps \in CallerSeps,
          chunk_size \in 0 .. MaxChunkSize, overlap \in 0 .. MaxOverlap :
          split = SplitCall(content, seps, chunk_size, overlap)
    /\ OthersInit

SplitNext == SplitEnter \/ SplitIterate \/ SplitReturn

SpecSplit == SplitInit /\ [][SplitNext]_vars

\* the calls of any caller: overlap is an int, and a negative one passes the
\* assertion as well
SplitSignedInit ==
    /\ RouterInit
    /\ bm = BotManager(DefaultSettings)
    /\ app = Application
    /\ \E content \in {c \in Contents : Len(c) <= MaxLen}, seps \in CallerSeps,
          chunk_size \in 0 .. MaxChunkSize, overlap \in (0 - MaxNegative) .. MaxOverlap :
          split = SplitCall(content, seps, chunk_size, overlap)
    /\ OthersInit

SpecSplitSigned == SplitSignedInit /\ [][SplitNext]_vars

----------------------------------------------------------------------------
(* Text operations of the ingestion utilities, on sequences of characters *)

Lowercase == <<"a", "b", "c", "d", "e", "f", "g", "h", "i", "j", "k", "l", "m", "n", "o", "p", "q", "r", "s", "t", "u", "v", "w", "x", "y", "z">>
Uppercase == <<"A", "B", "C", "D", "E", "F", "G", "H", "I", "J", "K", "L", "M", "N", "O", "P", "Q", "R", "S", "T", "U", "V", "W", "X", "Y", "Z">>

\* str.upper() and str.lower(), character by character
upper(text) ==
    [k \in DOMAIN text |->
        IF \E n \in DOMAIN Lowercase : Lowercase[n] = text[k]
        THEN Uppercase[CHOOSE n \in DOMAIN Lowercase : Lowercase[n] = text[k]]
        ELSE text[k]]

lower(text) ==
    [k \in DOMAIN text |->
        IF \E n \in DOMAIN Uppercase : Uppercase[n] = text[k]
        THEN Lowercase[CHOOSE n \in DOMAIN Uppercase : Uppercase[n] = text[k]]
        ELSE text[k]]

\* text.startswith(prefix)
startswith(text, prefix) ==
    Len(text) >= Len(prefix) /\ SubSeq(text, 1, Len(prefix)) = prefix

\* text.split(sep, maxsplit), with k the offset of the first sep in text;
\* maxsplit = -1 splits at every occurrence
RECURSIVE str_split(_, _, _)
split_at(text, sep, maxsplit, k) ==
    IF maxsplit = 0 \/ k = -1 THEN <<text>>
    ELSE <<SubSeq(text, 1, k)>>
         \o str_split(SubSeq(text, k + Len(sep) + 1, Len(text)), sep, maxsplit - 1)

\* text.split(sep, maxsplit)
str_split(text, sep, maxsplit) ==
    split_at(text, sep, maxsplit, find(text, sep, 0, Len(text)))

\* text.lstrip(chars)
lstrip(text, chars) == SubSeq(text, first_kept(text, chars, 1), Len(text))

\* the concatenation of a list of texts
RECURSIVE Concat(_)
Concat(texts) == IF texts = <<>> THEN <<>> ELSE Head(texts) \o Concat(Tail(texts))

\* dict[key] = value on a dict kept as its list of <<key, value>> in insertion order
DictPut(pairs, key, value) ==
    IF \E k \in DOMAIN pairs : pairs[k][1] = key
    THEN [k \in DOMAIN pairs |-> IF pairs[k][1] = key THEN <<key, value>> ELSE pairs[k]]
    ELSE Append(pairs, <<key, value>>)

\* dict.update(other)
RECURSIVE DictUpdate(_, _)
DictUpdate(pairs, other) ==
    IF other = <<>> THEN pairs
    ELSE DictUpdate(DictPut(pairs, Head(other)[1], Head(other)[2]), Tail(other))

\* the document of a front matter whose lines "key: value" are split in fields:
\* the mapping, None for an empty document, a scalar for any other text
yaml_document(fields) ==
    IF fields = <<>> THEN [kind |-> "None", pairs |-> <<>>]
    ELSE IF \A k \in DOMAIN fields : Len(fields[k]) = 2
    THEN [kind |-> "mapping",
          pairs |-> DictUpdate(<<>>, [k \in DOMAIN fields |->
                                         <<strip(fields[k][1]), strip(fields[k][2])>>])]
    ELSE [kind |-> "scalar", pairs |-> <<>>]

\* the fields of the lines of a front matter
yaml_fields(lines) == [k \in DOMAIN lines |-> str_split(lines[k], <<":", " ">>, 1)]

\* yaml.safe_load(text)
safe_load(text) ==
    yaml_document(yaml_fields(SelectSeq(str_split(text, <<"\n">>, -1),
                                        LAMBDA l : strip(l) # <<>>)))

\* data_split as a function: the chunks from start i on
RECURSIVE chunks_from(_, _, _, _, _)
chunks_from(content, seps, i, chunk_size, overlap) ==
    IF Len(content) - i > chunk_size
    THEN LET j == cut(content, seps, i, chunk_size, overlap) IN
         <<strip(Slice(content, i, j))>>
         \o chunks_from(content, seps, next_start(content, seps, j, overlap),
                        chunk_size, overlap)
    ELSE <<strip(Slice(content, i, Len(content)))>>

\* data_split(content, seps, chunk_size, overlap) where the assertion holds
data_split(content, seps, chunk_size, overlap) ==
    chunks_from(content, seps \o DefaultSeps, 0, chunk_size, overlap)

----------------------------------------------------------------------------
(* Document chunk extractor (utils/data_maker.py) *)

\* overlap: int = 900
DefaultOverlap == 900
\* len(i["content"]) < 30 and len(i["content"]) >= 20000
MinContent == 30
MaxContent == 20000

\* the outcome of a call: the list returned, or the exception raised
Returned(records) == [raised |-> FALSE, exc |-> "", records |-> records]
Raised(exc) == [raised |-> TRUE, exc |-> exc, records |-> <<>>]

\* format_metadata(meta_data)
format_metadata(meta_data) ==
    <<"<", "m", "e", "t", "a", "d", "a", "t", "a", ">", "\n">>
    \o Concat([k \in DOMAIN meta_data |->
                  upper(meta_data[k][1]) \o <<":", " ">> \o meta_data[k][2] \o <<"\n">>])
    \o <<"<", "/", "m", "e", "t", "a", "d", "a", "t", "a", ">", "\n", "\n">>

\* the decorator: every block's content gets its metadata in front
metadatadize(output) ==
    [k \in DOMAIN output |->
        [output[k] EXCEPT !.content = format_metadata(output[k].meta_data) \o @]]

\* file.suffix, from the parts of the name between its dots
suffix_of(parts) == IF Len(parts) = 1 THEN <<>> ELSE <<".">> \o parts[Len(parts)]
suffix(name) == suffix_of(str_split(name, <<".">>, -1))

useful_metadata ==
    {<<"f", "i", "l", "e", "_", "n", "a", "m", "e">>, <<"d", "e", "s", "c", "r", "i", "p", "t", "i", "o", "n">>, <<"k", "e", "y", "w", "o", "r", "d", "s">>, <<"t", "a", "g", "s">>, <<"t", "i", "t", "l", "e">>}

\* what a step of get_data leaves: the content and the metadata, or an exception
Went(content, meta_data) ==
    [raised |-> FALSE, exc |-> "", content |-> content, meta_data |-> meta_data]
Failed(exc) == [raised |-> TRUE, exc |-> exc, content |-> <<>>, meta_data |-> <<>>]

\* meta_data.update(yaml.safe_load(mdata)); content = content.strip()
front_matter_loaded(doc, content, meta_data) ==
    IF doc.kind = "None" THEN Failed("TypeError")
    ELSE IF doc.kind = "scalar" THEN Failed("ValueError")
    ELSE Went(strip(content), DictUpdate(meta_data, doc.pairs))

\* _, mdata, content = content.split("---", 2)
front_matter_parts(parts, meta_data) ==
    IF Len(parts) # 3 THEN Failed("ValueError")
    ELSE front_matter_loaded(safe_load(parts[2]), parts[3], meta_data)

\* if content.startswith("---"): the front matter goes into meta_data
front_matter(content, meta_data) ==
    IF ~startswith(content, <<"-", "-", "-">>) THEN Went(content, meta_data)
    ELSE front_matter_parts(str_split(content, <<"-", "-", "-">>, 2), meta_data)

\* title, content = content.split("\n", 1) and the three lines after it
heading_parts(parts, meta_data) ==
    IF Len(parts) # 2 THEN Failed("ValueError")
    ELSE Went(strip(parts[2]),
              DictPut(meta_data, <<"t", "i", "t", "l", "e">>, lstrip(parts[1], {"#", " "})))

\* if content.startswith("# "): the first line becomes the title
heading(content, meta_data) ==
    IF ~startswith(content, <<"#", " ">>) THEN Went(content, meta_data)
    ELSE heading_parts(str_split(content, <<"\n">>, 1), meta_data)

\* faulty variant: every front matter key is kept
retained_all(meta_data) == meta_data

\* the metadata kept for .md and .mdx files
retained(meta_data) ==
    SelectSeq(meta_data, LAMBDA pair : lower(pair[1]) \in useful_metadata)

\* the separators of the code files, by extension
code_seps(extension) ==
    IF extension = <<".", "j", "s">>
    THEN <<<<"\n", "f", "u", "n", "c", "t", "i", "o", "n">>, <<"\n", "c", "l", "a", "s", "s">>, <<"\n", "c", "o", "n", "s", "t">>, <<"\n", "l", "e", "t">>, <<"\n", "v", "a", "r">>>>
    ELSE IF extension = <<".", "s", "o", "l">>
    THEN <<<<"\n", "c", "o", "n", "t", "r", "a", "c", "t">>, <<"\n", "f", "u", "n", "c", "t", "i", "o", "n">>, <<"\n", "m", "o", "d", "i", "f", "i", "e", "r">>, <<"\n", "e", "v", "e", "n", "t">>,
           <<"\n", "s", "t", "r", "u", "c", "t">>>>
    ELSE <<<<"\n", "d", "e", "f">>, <<"\n", "c", "l", "a", "s", "s">>>>

\* one block per section
blocks(sections, content_of, meta_data, file_name, type) ==
    [k \in DOMAIN sections |->
        [content |-> content_of[k], meta_data |-> meta_data, file_name |-> file_name,
         type |-> type]]

\* rr: the blocks of r that are neither too short nor too long
length_filter(r) ==
    SelectSeq(r, LAMBDA i : ~(Len(i.content) < MinContent)
                            /\ ~(Len(i.content) >= MaxContent))

\* for section in data_split(...): r.append({"content": section, ...}), and
\* the filter
section_blocks(sections, meta_data, file_name, type) ==
    Returned(length_filter(blocks(sections, sections, meta_data, file_name, type)))

\* the else branch: r.append({"content": content, ...}) for each section
content_blocks(sections, content, meta_data, file_name) ==
    Returned(length_filter(blocks(sections, [k \in DOMAIN sections |-> content],
                                  meta_data, file_name, "answer")))

\* .md and .mdx after the heading
markdown_titled(titled, file_name, overlap) ==
    IF titled.raised THEN Raised(titled.exc)
    ELSE section_blocks(data_split(titled.content,
                                   <<<<"\n", "#", " ">>, <<"\n", "#", "#", " ">>, <<"\n", "#", "#", "#", " ">>>>,
                                   10 * overlap, overlap),
                        retained(titled.meta_data), file_name, "answer")

\* .md and .mdx after the front matter
markdown_front(front, file_name, overlap) ==
    IF front.raised THEN Raised(front.exc)
    ELSE markdown_titled(heading(front.content, front.meta_data), file_name, overlap)

\* the branches of get_data, by extension
get_data_of(file, extension, meta_data, overlap) ==
    IF ~file.decodes THEN Raised("UnicodeDecodeError")
    ELSE IF extension \in {<<".", "m", "d", "x">>, <<".", "m", "d">>}
    THEN markdown_front(front_matter(file.text, meta_data), file.name, overlap)
    ELSE IF extension \in {<<".", "j", "s">>, <<".", "s", "o", "l">>, <<".", "p", "y">>}
    THEN section_blocks(data_split(file.text, code_seps(extension), 10 * overlap,
                                   overlap),
                        meta_data, file.name, "code")
    ELSE content_blocks(data_split(file.text, <<>>, 10 * overlap, overlap),
                        file.text, meta_data, file.name)

\* the undecorated get_data(file, base_path, overlap); file.name is the path
\* relative to base_path
get_data_body(file, overlap) ==
    get_data_of(file, suffix(file.name), <<<<<<"f", "i", "l", "e", "_", "n", "a", "m", "e">>, file.name>>>>, overlap)

\* the decorator on what the function gave
decorated(output) ==
    IF output.raised THEN output ELSE Returned(metadatadize(output.records))

\* get_data as make_data calls it, with its decorator
get_data(file, overlap) == decorated(get_data_body(file, overlap))

\* n characters of words of seven letters
Prose(n) == [k \in 1 .. n |-> IF k % 8 = 0 THEN " " ELSE "a"]

\* a file of the data directory that decodes as text
TextFile(name, text) == [name |-> name, text |-> text, decodes |-> TRUE]

\* the files a walk can meet: Markdown with and without front matter and
\* heading, with front matter that is not closed or is empty, with a heading
\* and no body; code; other text, short and long; a file that is not text
Files ==
    {TextFile(<<"g", "u", "i", "d", "e", ".", "m", "d">>,
              <<"-", "-", "-", "\n", "t", "i", "t", "l", "e", ":", " ", "T", "\n", "a", "u", "t", "h", "o", "r", ":", " ", "m", "e", "\n", "T", "a", "g", "s", ":", " ", "x", "\n", "-", "-", "-", "\n", "#", " ", "H", "e", "a", "d", "\n">> \o Prose(60)),
     TextFile(<<"b", "r", "o", "k", "e", "n", ".", "m", "d">>, <<"-", "-", "-", "\n", "t", "i", "t", "l", "e", ":", " ", "T", "\n">> \o Prose(40)),
     TextFile(<<"e", "m", "p", "t", "y", ".", "m", "d", "x">>, <<"-", "-", "-", "\n", "-", "-", "-", "\n">> \o Prose(40)),
     TextFile(<<"s", "h", "o", "r", "t", ".", "m", "d">>, <<"h", "i">>),
     TextFile(<<"t", "i", "t", "l", "e", ".", "m", "d">>, <<"#", " ", "O", "n", "l", "y">>),
     TextFile(<<"l", "o", "n", "g", ".", "m", "d">>, Prose(9100)),
     TextFile(<<"t", "o", "o", "l", ".", "p", "y">>, <<"d", "e", "f", " ", "f", "(", ")", ":", "\n">> \o Prose(50)),
     TextFile(<<"n", "o", "t", "e", "s", ".", "t", "x", "t">>, <<" ">> \o Prose(9100)),
     TextFile(<<"d", "u", "m", "p", ".", "t", "x", "t">>, Letters(19990)),
     [name |-> <<"i", "m", "a", "g", "e", ".", "b", "i", "n">>, text |-> <<>>, decodes |-> FALSE]}

\* what get_data(file, data_path) gives for each file of the directory
Extraction ==
    [name \in {file.name : file \in Files} |->
        get_data(CHOOSE file \in Files : file.name = name, DefaultOverlap)]

\* faulty variant: a failing file empties the list
extend_data_reset(data, output) ==
    IF output.raised THEN <<>> ELSE data \o output.records

\* try: data.extend(get_data(file, data_path)) except Exception: continue
extend_data(data, output) ==
    IF output.raised THEN data ELSE data \o output.records

\* one file of the walk: its name is logged, its records are added
walk_file(state, name, output) ==
    [state EXCEPT !.walked = Append(@, name),
                  !.outcomes = Append(@, output),
                  !.data = extend_data(@, output)]

\* everything but make_data stays as constructed
OnlyIngest == UNCHANGED <<histories, attestation_requested, turn, requested_by,
                          arrived, nturns, ndetours, previous, bm, app, split,
                          code, fetch, sync, http, allowed, doors>>

\* make_data is entered: data = []
MakeDataStart ==
    /\ ingest.pc = "idle"
    /\ ingest' = [ingest EXCEPT !.pc = "walk"]
    /\ OnlyIngest

\* the walk reaches the next matched file
MakeDataFile ==
    /\ ingest.pc = "walk"
    /\ Len(ingest.walked) < MaxFiles
    /\ \E file \in Files :
          /\ \A k \in DOMAIN ingest.walked : ingest.walked[k] # file.name
          /\ ingest' = walk_file(ingest, file.name, Extraction[file.name])
    /\ OnlyIngest

\* the walk is over: json.dump(data, f)
MakeDataWrite ==
    /\ ingest.pc = "walk"
    /\ ingest' = [ingest EXCEPT !.pc = "written", !.data_json = ingest.data]
    /\ OnlyIngest

IngestInit ==
    /\ RouterInit
    /\ bm = BotManager(DefaultSettings)
    /\ app = Application
    /\ split = NoSplit
    /\ OthersInit

IngestNext == MakeDataStart \/ MakeDataFile \/ MakeDataWrite

SpecIngest == IngestInit /\ [][IngestNext]_vars

----------------------------------------------------------------------------
(* Contract code reader (utils/code_data_reader.py) *)

\* if len(r) > 500: break
SafetyCap == 500

\* an item of contracts.json; a key that is missing has present |-> FALSE
Key(value) == [present |-> TRUE, value |-> value]
Missing == [present |-> FALSE, value |-> <<>>]
Contract(source, file_name, address) ==
    [SourceCode |-> source, FileName |-> file_name, Address |-> address]

\* a contract of one chunk
Plain ==
    Contract(Key(<<"c", "o", "n", "t", "r", "a", "c", "t", " ", "A", " ", "{", "\n">> \o Prose(40)), Key(<<"A", ".", "s", "o", "l">>), Key(<<"0", "x", "1">>))

\* the contracts that follow the plain ones: without source, without file
\* name, with an empty file name, with a source of one character, and with a
\* source of more than one chunk
Contracts ==
    {Plain,
     Contract(Missing, Key(<<"N", ".", "s", "o", "l">>), Key(<<"0", "x", "2">>)),
     Contract(Key(<<"c", "o", "n", "t", "r", "a", "c", "t", " ", "B", " ", "{", "\n">> \o Prose(40)), Missing, Key(<<"0", "x", "3">>)),
     Contract(Key(<<"c", "o", "n", "t", "r", "a", "c", "t", " ", "C", " ", "{", "\n">> \o Prose(40)), Key(<<>>), Missing),
     Contract(Key(<<"x">>), Key(<<"T", ".", "s", "o", "l">>), Key(<<"0", "x", "4">>)),
     Contract(Key(<<"c", "o", "n", "t", "r", "a", "c", "t", " ", "D", " ", "{", "\n">> \o Prose(9100)), Key(<<"D", ".", "s", "o", "l">>), Missing)}

\* the lengths of the run of plain contracts at the head of contracts.json
Bulks == {0, SafetyCap - 1, SafetyCap}

\* the metadata of an item
code_metadata(item) ==
    (IF item.FileName.present THEN <<<<<<"f", "i", "l", "e", "_", "n", "a", "m", "e">>, item.FileName.value>>>> ELSE <<>>)
    \o (IF item.Address.present THEN <<<<<<"a", "d", "d", "r", "e", "s", "s">>, item.Address.value>>>> ELSE <<>>)

\* the records one item adds to r
code_records(item, overlap) ==
    IF ~item.SourceCode.present THEN <<>>
    ELSE IF ~item.FileName.present \/ item.FileName.value = <<>> THEN <<>>
    ELSE LET sections ==
                 data_split(item.SourceCode.value,
                            <<<<"\n", "c", "o", "n", "t", "r", "a", "c", "t">>, <<"\n", "f", "u", "n", "c", "t", "i", "o", "n">>, <<"\n", "m", "o", "d", "i", "f", "i", "e", "r">>,
                              <<"\n", "e", "v", "e", "n", "t">>, <<"\n", "s", "t", "r", "u", "c", "t">>>>,
                            10 * overlap, overlap)
         IN [k \in DOMAIN sections |->
                [content |-> sections[k], metadata |-> code_metadata(item),
                 file_name |-> item.FileName.value, type |-> "code"]]

\* what each contract of the corpus adds
CodeRecords == [item \in Contracts |-> code_records(item, DefaultOverlap)]

\* everything but get_code_data stays as constructed
OnlyCode == UNCHANGED <<histories, attestation_requested, turn, requested_by,
                        arrived, nturns, ndetours, previous, bm, app, split,
                        ingest, fetch, sync, http, allowed, doors>>

\* get_code_data is entered: contracts.json is loaded, r = []
CodeEnter ==
    /\ code.pc = "idle"
    /\ \E bulk \in Bulks : code' = [NoCode EXCEPT !.pc = "loop", !.bulk = bulk]
    /\ OnlyCode

\* one iteration of the loop over the items
CodeIterate ==
    /\ code.pc = "loop"
    /\ IF Len(code.r) > SafetyCap
       THEN /\ code.read < code.bulk \/ Len(code.tail) < MaxTail
            /\ code' = [code EXCEPT !.pc = "returned"]
       ELSE IF code.read < code.bulk
       THEN code' = [code EXCEPT !.read = @ + 1, !.r = @ \o CodeRecords[Plain]]
       ELSE /\ Len(code.tail) < MaxTail
            /\ \E item \in Contracts :
                  code' = [code EXCEPT !.read = @ + 1, !.tail = Append(@, item),
                                       !.r = @ \o CodeRecords[item]]
    /\ OnlyCode

\* the items are exhausted: return r
CodeReturn ==
    /\ code.pc = "loop"
    /\ code.read >= code.bulk
    /\ code' = [code EXCEPT !.pc = "returned"]
    /\ OnlyCode

CodeNext == CodeEnter \/ CodeIterate \/ CodeReturn

SpecCode == IngestInit /\ [][CodeNext]_vars

----------------------------------------------------------------------------
(* Contract fetcher (downloader/contracts.py) *)

\* what the explorer answers to a request: contracts, an HTTP status other
\* than 200, a body whose status is not "1", or a body without result
ListAnswers == {"ok", "http_error", "status_0", "empty"}
SourceAnswers == {"ok", "http_error", "empty"}

\* the addresses on a page of n contracts
PageAddresses(page, n) == [k \in 1 .. n |-> page * MaxPerPage + k]

\* faulty variant: the addresses of a page go in front of the earlier ones
extend_addresses_front(addresses, result) == result \o addresses

\* addresses.extend(contract["Address"] for contract in data["result"])
extend_addresses(addresses, result) == addresses \o result

\* everything but the fetcher stays as constructed
OnlyFetch == UNCHANGED <<histories, attestation_requested, turn, requested_by,
                         arrived, nturns, ndetours, previous, bm, app, split,
                         ingest, code, sync, http, allowed, doors>>

\* main() calls fetch_verified_contracts(): addresses = [], page = 0
FetchStart ==
    /\ fetch.pc = "idle"
    /\ fetch' = [fetch EXCEPT !.pc = "list"]
    /\ OnlyFetch

\* one iteration of the loop over the list pages
FetchListPage ==
    /\ fetch.pc = "list"
    /\ \E answer \in ListAnswers, n \in 1 .. MaxPerPage :
          IF answer = "ok"
          THEN /\ fetch.page < MaxPages
               /\ fetch' = [fetch EXCEPT
                               !.events = @ \o <<"list", "sleep">>,
                               !.requested = Append(@,
                                   [page |-> fetch.page, answer |-> answer,
                                    result |-> PageAddresses(fetch.page, n)]),
                               !.addresses = extend_addresses(@,
                                   PageAddresses(fetch.page, n)),
                               !.page = @ + 1]
          ELSE fetch' = [fetch EXCEPT
                            !.events = Append(@, "list"),
                            !.requested = Append(@,
                                [page |-> fetch.page, answer |-> answer,
                                 result |-> <<>>]),
                            !.pc = IF fetch.addresses = <<>> THEN "done"
                                   ELSE "sources"]
    /\ OnlyFetch

\* one iteration of the loop over the addresses
FetchSource ==
    /\ fetch.pc = "sources"
    /\ fetch.next <= Len(fetch.addresses)
    /\ \E answer \in SourceAnswers :
          fetch' = [fetch EXCEPT
                       !.events = @ \o <<"source", "sleep">>,
                       !.contracts = IF answer = "ok"
                                     THEN Append(@, fetch.addresses[fetch.next])
                                     ELSE @,
                       !.next = @ + 1]
    /\ OnlyFetch

\* json.dump(contracts, file)
FetchWrite ==
    /\ fetch.pc = "sources"
    /\ fetch.next > Len(fetch.addresses)
    /\ fetch' = [fetch EXCEPT !.pc = "done", !.written = TRUE]
    /\ OnlyFetch

FetchNext == FetchStart \/ FetchListPage \/ FetchSource \/ FetchWrite

SpecFetch == IngestInit /\ [][FetchNext]_vars

----------------------------------------------------------------------------
(* Source synchroniser (utils/source_manager.py) *)

\* A remote is the list of its commits, each the set of files it touches; a
\* clone has its working tree at commit `local` and its origin/<branch> at
\* commit `origin`.

\* the commits a push can add: one touching no file, one file, two files
Commits == {{}, {"a"}, {"a", "b"}}

\* the paths of the remotes, in the order git prints them
Paths == <<"a", "b">>

\* the lines of a text joined by "\n"
RECURSIVE Join(_)
Join(lines) ==
    IF lines = <<>> THEN <<>>
    ELSE IF Len(lines) = 1 THEN Head(lines)
    ELSE Head(lines) \o <<"\n">> \o Join(Tail(lines))

\* repo.git.diff("--name-only", "origin/<branch>"): the files that differ
\* between the working tree and origin/<branch>, one per line
diff(repo, commits) ==
    LET touched == UNION {commits[k] : k \in (repo.local + 1) .. repo.origin} IN
    Join([k \in DOMAIN SelectSeq(Paths, LAMBDA path : path \in touched) |->
             <<SelectSeq(Paths, LAMBDA path : path \in touched)[k]>>])

\* git.Repo.clone_from(url, path); repo.git.checkout(branch)
clone_from(commits) ==
    [exists |-> TRUE, local |-> Len(commits), origin |-> Len(commits)]

\* repo.remotes.origin.fetch()
origin_fetch(repo, commits) == [repo EXCEPT !.origin = Len(commits)]

\* faulty variant: the pull moves origin/<branch> and leaves the working tree
origin_pull_fetch_only(repo, commits) == [repo EXCEPT !.origin = Len(commits)]

\* repo.remotes.origin.pull()
origin_pull(repo, commits) ==
    [repo EXCEPT !.origin = Len(commits), !.local = Len(commits)]

\* everything but the synchroniser stays as constructed
OnlySync == UNCHANGED <<histories, attestation_requested, turn, requested_by,
                        arrived, nturns, ndetours, previous, bm, app, split,
                        ingest, code, fetch, http, allowed, doors>>

\* update_sources is entered: changed_files = []
SyncStart ==
    /\ sync.pc = "idle"
    /\ Len(sync.runs) < MaxRuns
    /\ sync' = [sync EXCEPT !.pc = "loop", !.i = 1, !.changed_files = <<>>,
                            !.handled = <<>>]
    /\ OnlySync

\* one iteration of the loop over the sources; the remote may get a commit
\* between the fetch and the pull
SyncSource ==
    /\ sync.pc = "loop"
    /\ sync.i <= Len(Sources)
    /\ LET s == sync.i
           repo == sync.repos[s]
           quiet == ~sync.stale[s]
       IN IF ~repo.exists
          THEN sync' = [sync EXCEPT
                           !.repos[s] = clone_from(sync.upstream[s]),
                           !.stale[s] = FALSE,
                           !.handled = Append(@, [did |-> "clone", files |-> <<>>,
                                                  quiet |-> quiet]),
                           !.i = @ + 1]
          ELSE LET fetched == origin_fetch(repo, sync.upstream[s])
                   chs == diff(fetched, sync.upstream[s])
               IN IF chs # <<>>
                  THEN \E late \in {<<>>} \cup {<<commit>> : commit \in Commits} :
                          /\ late # <<>> => sync.pushes < MaxPushes
                          /\ sync' = [sync EXCEPT
                                         !.upstream[s] = @ \o late,
                                         !.pushes = @ + Len(late),
                                         !.repos[s] = origin_pull(fetched,
                                                                  sync.upstream[s] \o late),
                                         !.stale[s] = FALSE,
                                         !.changed_files =
                                             @ \o str_split(chs, <<"\n">>, -1),
                                         !.handled =
                                             Append(@, [did |-> "pull",
                                                        files |-> str_split(chs, <<"\n">>, -1),
                                                        quiet |-> quiet]),
                                         !.i = @ + 1]
                  ELSE sync' = [sync EXCEPT
                                   !.repos[s] = fetched,
                                   !.stale[s] = FALSE,
                                   !.handled = Append(@, [did |-> "none", files |-> <<>>,
                                                          quiet |-> quiet]),
                                   !.i = @ + 1]
    /\ OnlySync

\* return changed_files
SyncReturn ==
    /\ sync.pc = "loop"
    /\ sync.i > Len(Sources)
    /\ sync' = [sync EXCEPT
                   !.pc = "idle",
                   !.runs = Append(@, [changed_files |-> sync.changed_files,
                                       handled |-> sync.handled])]
    /\ OnlySync

\* somebody pushes a commit to the remote of a source
UpstreamPush ==
    /\ sync.pushes < MaxPushes
    /\ \E s \in DOMAIN Sources, commit \in Commits :
          sync' = [sync EXCEPT !.upstream[s] = Append(@, commit),
                               !.stale[s] = TRUE,
                               !.pushes = @ + 1]
    /\ OnlySync

SyncNext == SyncStart \/ SyncSource \/ SyncReturn \/ UpstreamPush

SpecSync == IngestInit /\ [][SyncNext]_vars

----------------------------------------------------------------------------
(* Chat endpoint (api/routes/chat.py) *)

\* request.cookies.get("user_id"): None when the request has no such cookie
NoCookie == [present |-> FALSE, value |-> ""]
Cookie(value) == [present |-> TRUE, value |-> value]

\* str(uuid.uuid4()): the n-th identifier drawn differs from the earlier ones
uuid4(n) == "u" \o ToString(n)

\* the identifiers of the conversations: one a client made up, and the issued
ChatIds == {"A"} \cup {"chat-" \o uuid4(n) : n \in 1 .. MaxIssued}

\* the cookies a client can send: none, an empty one, one it made up, and the
\* ones the endpoint has set
ClientCookies ==
    {NoCookie, Cookie(""), Cookie("A")}
    \cup {Cookie("chat-" \o uuid4(n)) : n \in 1 .. http.issued}

\* faulty variant: every request gets a new identifier
not_user_id_always(cookie) == TRUE

\* if not user_id
not_user_id(cookie) == ~cookie.present \/ cookie.value = ""

\* POST /: the whole handler
Chat ==
    /\ nturns < MaxTurns
    /\ \E cookie \in ClientCookies, message \in Messages, env \in LongEnvironments :
          LET fresh == not_user_id(cookie)
              user_id == IF fresh THEN "chat-" \o uuid4(http.issued + 1)
                         ELSE cookie.value
          IN /\ fresh => http.issued < MaxIssued
             /\ http' = [log |-> Append(http.log,
                                        [cookie |-> cookie,
                                         uuid |-> IF fresh THEN uuid4(http.issued + 1)
                                                  ELSE "",
                                         set_cookie |-> IF fresh THEN Cookie(user_id)
                                                        ELSE NoCookie,
                                         user_id |-> user_id]),
                         issued |-> IF fresh THEN http.issued + 1 ELSE http.issued]
             /\ generate_response(message, user_id, env)
    /\ UNCHANGED <<bm, app, split, ingest, code, fetch, sync, allowed, doors>>

ChatInit ==
    /\ histories = <<>>
    /\ attestation_requested = FALSE
    /\ turn = NoTurn
    /\ requested_by = ""
    /\ arrived = [u \in ChatIds |-> <<>>]
    /\ nturns = 0
    /\ ndetours = 0
    /\ previous = [u \in ChatIds |-> NoPrevious]
    /\ bm = BotManager(DefaultSettings)
    /\ app = Application
    /\ split = NoSplit
    /\ OthersInit

SpecChat == ChatInit /\ [][Chat]_vars

----------------------------------------------------------------------------
(* The Telegram allow-list (settings.py and bot_manager.py) *)

\* the characters of a telegram_allowed_users text: decimal digits, a
\* superscript digit, the comma, a blank, a letter and a sign
SettingChars == {"1", "2", "²", ",", " ", "x", "-"}

\* the texts the setting can hold
SettingTexts == UNION {[1 .. n -> SettingChars] : n \in 0 .. MaxSetting}

DecimalDigits == <<"0", "1", "2", "3", "4", "5", "6", "7", "8", "9">>

\* a character int() reads as a decimal digit
is_decimal(c) == \E n \in DOMAIN DecimalDigits : DecimalDigits[n] = c

\* str.isdigit(): not empty and every character is a digit; the superscript
\* two is a digit for isdigit
isdigit(text) ==
    /\ text # <<>>
    /\ \A k \in DOMAIN text : is_decimal(text[k]) \/ text[k] = "²"

\* the number a run of decimal digits denotes
RECURSIVE digits_value(_)
digits_value(text) ==
    IF text = <<>> THEN 0
    ELSE 10 * digits_value(SubSeq(text, 1, Len(text) - 1))
         + (CHOOSE n \in DOMAIN DecimalDigits : DecimalDigits[n] = text[Len(text)]) - 1

\* the digits of a stripped text after its optional sign
unsigned(text) ==
    IF text # <<>> /\ text[1] \in {"+", "-"} THEN Tail(text) ELSE text

\* int(text) returns: the text is an optional sign and decimal digits;
\* any other text over SettingChars raises ValueError
int_parses(text) ==
    /\ unsigned(text) # <<>>
    /\ \A k \in DOMAIN unsigned(text) : is_decimal(unsigned(text)[k])

\* int(text)
int(text) ==
    IF text[1] = "-" THEN 0 - digits_value(unsigned(text))
    ELSE digits_value(unsigned(text))

\* [user_id.strip() for user_id in text.split(",")]
stripped_entries(text) ==
    LET entries == str_split(text, <<",">>, -1)
    IN  [k \in DOMAIN entries |-> strip(entries[k])]

\* [int(e) for e in entries]; one ValueError leaves the comprehension, and
\* the handler's value is the empty list
ints_or_empty(entries) ==
    IF \A k \in DOMAIN entries : int_parses(entries[k])
    THEN [k \in DOMAIN entries |-> int(entries[k])]
    ELSE <<>>

\* faulty variant: an entry that is no integer is left out
telegram_allowed_user_ids_lenient(telegram_allowed_users) ==
    IF telegram_allowed_users = <<>> THEN <<>>
    ELSE ints_or_empty(SelectSeq(stripped_entries(telegram_allowed_users),
                                 LAMBDA e : int_parses(e)))

\* Settings.telegram_allowed_user_ids
telegram_allowed_user_ids(telegram_allowed_users) ==
    IF telegram_allowed_users = <<>> THEN <<>>
    ELSE ints_or_empty(SelectSeq(stripped_entries(telegram_allowed_users),
                                 LAMBDA e : e # <<>>))

\* BotManager._parse_allowed_users
parse_allowed_users(telegram_allowed_users) ==
    IF telegram_allowed_users = <<>> THEN <<>>
    ELSE ints_or_empty(SelectSeq(stripped_entries(telegram_allowed_users),
                                 LAMBDA e : isdigit(e)))

\* everything but the allow-list stays as constructed
OnlyAllowed == UNCHANGED <<histories, attestation_requested, turn, requested_by,
                           arrived, nturns, ndetours, previous, bm, app, split,
                           ingest, code, fetch, sync, http, doors>>

\* a read of settings.telegram_allowed_user_ids
ReadAllowedUserIds ==
    /\ ~allowed.read
    /\ allowed' = [allowed EXCEPT
                      !.read = TRUE,
                      !.user_ids = telegram_allowed_user_ids(
                                       allowed.telegram_allowed_users)]
    /\ OnlyAllowed

\* start_telegram_bot, lines 97-105: TelegramBot(allowed_user_ids=allowed_users)
ConstructTelegramBot ==
    /\ ~allowed.started
    /\ allowed' = [allowed EXCEPT
                      !.started = TRUE,
                      !.allowed_user_ids = parse_allowed_users(
                                               allowed.telegram_allowed_users)]
    /\ OnlyAllowed

\* the environment holds any text for the setting
AllowedInit ==
    /\ RouterInit
    /\ bm = BotManager(DefaultSettings)
    /\ app = Application
    /\ split = NoSplit
    /\ UtilitiesInit
    /\ doors = NoDoors
    /\ \E text \in SettingTexts :
          allowed = [NoAllowed EXCEPT !.telegram_allowed_users = text]

AllowedNext == ReadAllowedUserIds \/ ConstructTelegramBot

SpecAllowed == AllowedInit /\ [][AllowedNext]_vars

----------------------------------------------------------------------------
(* The two orchestrators of create_app (main.py) and their front doors *)

\* the callers of generate_response: the chat endpoint and the Telegram
\* adapter on the event loop, the Twitter adapter on its own thread
Doors == {"http", "telegram", "twitter"}

\* the orchestrator a front door calls: the endpoint is a method of
\* chat_router, the adapters are given the Bot Manager's router
router_of(door) == IF door = "http" THEN "chat_router" ELSE "bot_router"

\* faulty variant: one Vtpm object is handed to both orchestrators
create_app_one_vtpm ==
    [routers |-> [chat_router |-> [attestation |-> 1, histories |-> 1],
                  bot_router |-> [attestation |-> 1, histories |-> 2]],
     vtpm |-> <<FALSE>>,
     dicts |-> <<<<>>, <<>>>>]

\* create_app, lines 158-175: each orchestrator is built with a new Vtpm,
\* and BaseRouter.__init__ gives each a new dict; the objects are kept by
\* their number
create_app ==
    [routers |-> [chat_router |-> [attestation |-> 1, histories |-> 1],
                  bot_router |-> [attestation |-> 2, histories |-> 2]],
     vtpm |-> <<FALSE, FALSE>>,
     dicts |-> <<<<>>, <<>>>>]

\* a front door with no turn in progress
NoLocal == [pc |-> "none", message |-> "", user_id |-> "", history |-> <<>>, seen |-> 0]

\* the flag and the histories an orchestrator reads
Observed(d, router) ==
    [attestation_requested |-> d.vtpm[d.routers[router].attestation],
     histories |-> d.dicts[d.routers[router].histories]]

\* the record of a completed turn; seen is the number of turns that were
\* complete when this one began
Completed(door, local, outcome) ==
    [door |-> door, router |-> router_of(door), user_id |-> local.user_id,
     message |-> local.message, seen |-> local.seen, outcome |-> outcome]

\* generate_response, lines 69-78, on the orchestrator of a door: the history
\* is read; a pending attestation consumes the message and the call returns
begin_turn(d, door, message, user_id, payload) ==
    LET router == d.routers[router_of(door)]
        dict == d.dicts[router.histories]
        local == [pc |-> "routing", message |-> message, user_id |-> user_id,
                  history |-> IF user_id \in DOMAIN dict THEN dict[user_id] ELSE <<>>,
                  seen |-> Len(d.log)]
    IN  IF d.vtpm[router.attestation]
        THEN [d EXCEPT !.vtpm[router.attestation] = payload.flag,
                       !.begun = @ + 1,
                       !.log = Append(@, Completed(door, local, "payload"))]
        ELSE [d EXCEPT !.local[door] = local, !.begun = @ + 1]

\* generate_response, lines 80-92, with h the outcome of route_message: the
\* handler may set the flag, and the list stored is built from the history
\* read at line 69
end_turn(d, door, h) ==
    LET router == d.routers[router_of(door)]
        local == d.local[door]
    IN  IF h.raised
        THEN [d EXCEPT !.local[door] = NoLocal,
                       !.log = Append(@, Completed(door, local, "raised"))]
        ELSE [d EXCEPT !.local[door] = NoLocal,
                       !.vtpm[router.attestation] = @ \/ h.set_flag,
                       !.dicts[router.histories] =
                           DictSet(@, local.user_id,
                                   stored_history(local.history, local.message)),
                       !.log = Append(@, Completed(door, local, "stored"))]

\* everything but the pair of orchestrators stays as constructed
OnlyDoors == UNCHANGED <<histories, attestation_requested, turn, requested_by,
                         arrived, nturns, ndetours, previous, bm, app, split,
                         ingest, code, fetch, sync, http, allowed>>

\* app = create_app()
CreateApp ==
    /\ doors.pc = "idle"
    /\ doors' = [pc |-> "serving", routers |-> create_app.routers,
                 vtpm |-> create_app.vtpm, dicts |-> create_app.dicts,
                 local |-> [door \in Doors |-> NoLocal], begun |-> 0, log |-> <<>>]
    /\ OnlyDoors

\* a front door calls generate_response and the call runs up to its first await
TurnBegin ==
    /\ doors.pc = "serving"
    /\ doors.begun < MaxDoorTurns
    /\ \E door \in Doors, message \in Messages, user_id \in Users,
          tok \in TokenOutcomes :
          /\ doors.local[door].pc = "none"
          /\ doors' = begin_turn(doors, door, message, user_id,
                                 attestation_payload(message, [Default EXCEPT !.tok = tok]))
    /\ OnlyDoors

\* the call of a front door runs from its first await to its end
TurnEnd ==
    /\ doors.pc = "serving"
    /\ \E door \in Doors, env \in LongEnvironments :
          /\ doors.local[door].pc = "routing"
          /\ doors' = end_turn(doors, door,
                 route_message(
                     get_semantic_route(doors.local[door].message,
                                        doors.local[door].user_id,
                                        doors.local[door].history, env).route,
                     doors.local[door].message, doors.local[door].user_id,
                     doors.local[door].history, env))
    /\ OnlyDoors

DoorsNext == CreateApp \/ TurnBegin \/ TurnEnd

SpecDoors == Init /\ [][DoorsNext]_vars

----------------------------------------------------------------------------
(* Reading the last turn *)

\* the last turn's calls on one collaborator operation, in call order
CallsTo(fn) == SelectSeq(turn.calls, LAMBDA c : c.fn = fn)

\* self.histories.get(user_id, []) on a given map
HistoryIn(map, user_id) ==
    IF user_id \in DOMAIN map THEN map[user_id] ELSE <<>>

\* the last call went through get_semantic_route and route_message
Routed == turn.branch = "routed"

\* the query router returned this value in the last turn
Classified(value) ==
    /\ Routed
    /\ \E i \in DOMAIN turn.calls :
          /\ turn.calls[i].fn = "route_query"
          /\ ~turn.calls[i].raised
          /\ turn.calls[i].ret = value

\* the semantic-router step of the last turn failed: its prompt did not
\* render, the provider raised, or the label is no SemanticRouterResponse
SemanticStepFailed ==
    /\ Routed
    /\ \E i \in DOMAIN turn.calls :
          /\ turn.calls[i].fn \in {"get_formatted_prompt", "ai.generate"}
          /\ turn.calls[i].args.template = "semantic_router"
          /\ \/ turn.calls[i].raised
             \/ /\ turn.calls[i].fn = "ai.generate"
                /\ turn.calls[i].ret \notin SemanticRouterResponse

----------------------------------------------------------------------------
(* Claims *)

\* C1: after any sequence of successful non-payload turns by one user the
\* stored history of that user never holds more than 20 messages, and after 25
\* such turns it is exactly the 20 most recent messages in arrival order.
C1_HistoryCappedAt20 ==
    \A u \in Users :
        /\ Len(HistoryIn(histories, u)) <= 20
        /\ Len(arrived[u]) >= 25 => HistoryIn(histories, u) = LastN(arrived[u], 20)

\* C2: a completed REQUEST_ATTESTATION turn has set the flag and returned the
\* text the provider generated; a call that finds the flag set (so the very
\* next call) passes its message to get_token as the only payload, leaves the
\* flag false and, get_token having returned a token, returns that token as the
\* response.
C2_AttestationRoundTrip ==
    /\ (Routed /\ turn.route = "REQUEST_ATTESTATION" /\ ~turn.raised) =>
          /\ attestation_requested
          /\ Len(CallsTo("ai.generate")) = 2
          /\ CallsTo("ai.generate")[2].args.template = "request_attestation"
          /\ turn.result = [response |-> CallsTo("ai.generate")[2].ret]
    /\ turn.pending =>
          /\ Len(CallsTo("get_token")) = 1
          /\ CallsTo("get_token")[1].args = <<turn.message>>
          /\ ~attestation_requested
          /\ ~CallsTo("get_token")[1].raised =>
                turn.result = [response |-> CallsTo("get_token")[1].ret]

\* C2 witness: the payload turn that follows a request got its token.
C2_Witness ==
    /\ turn.pending
    /\ turn.requested_by = turn.user_id
    /\ turn.result = [response |-> TokenText]

\* C3: with the flag set by user A's turn, a message of another user B that
\* arrives first is routed normally and is not passed to get_token.
C3_PayloadIsRequestersMessage ==
    (turn.pending /\ turn.user_id # turn.requested_by) =>
        /\ Routed
        /\ Len(CallsTo("get_token")) = 0

\* C4 as stated: a call that finds the flag set returns a response without
\* raising and leaves the flag false, and when token issuance fails the
\* response text is the failure's message.
C4_FailureMessageIsResponse ==
    turn.pending =>
        /\ ~turn.raised
        /\ ~attestation_requested
        /\ CallsTo("get_token")[1].raised =>
              turn.result = [response |-> TokenErrorReason]

\* C4: a call that finds the flag set returns a response without raising and
\* leaves the flag false whether issuance succeeds or fails; when it fails the
\* response text is "The attestation failed with error:" and a newline,
\* followed by the failure's message.
C4_PayloadTurnNeverRaises ==
    turn.pending =>
        /\ ~turn.raised
        /\ DOMAIN turn.result = {"response"}
        /\ ~attestation_requested
        /\ CallsTo("get_token")[1].raised =>
              turn.result =
                 [response |-> "The attestation failed with error:\n" \o TokenErrorReason]

\* C4 witness: token issuance failed in a payload turn.
C4_Witness ==
    /\ turn.pending
    /\ Len(CallsTo("get_token")) = 1
    /\ CallsTo("get_token")[1].raised

\* C5: a turn taken on the pending-attestation branch leaves every user's
\* stored history unchanged and calls neither the prompt service, the
\* provider (semantic router, chat session), the query router, the retriever
\* nor the responder.
C5_PayloadTurnFrame ==
    [][(attestation_requested /\ nturns' = nturns + 1) =>
          /\ histories' = histories
          /\ \A i \in DOMAIN turn'.calls :
                turn'.calls[i].fn \notin
                   {"get_formatted_prompt", "ai.generate", "ai.send_message",
                    "route_query", "semantic_search", "responder.generate_response"}]_vars

\* C5 witness: a payload turn of a user who has a stored history.
C5_Witness ==
    /\ turn.pending
    /\ turn.history # <<>>
    /\ \E u \in Users : u # turn.user_id /\ HistoryIn(histories, u) # <<>>

\* C6: a RAG-routed message that the query router classifies REJECT gets
\* classification REJECT with the response 'The query is out of scope.', and
\* the turn makes no semantic_search call and no responder call.
C6_RejectShortCircuits ==
    Classified("REJECT") =>
        /\ ~turn.raised
        /\ turn.result =
              [classification |-> "REJECT", response |-> "The query is out of scope."]
        /\ Len(CallsTo("semantic_search")) = 0
        /\ Len(CallsTo("responder.generate_response")) = 0

\* C6 witness: a turn classified REJECT.
C6_Witness ==
    Classified("REJECT") /\ turn.route = "RAG_ROUTER"

\* the searches and the responder call of a turn classified with a label whose
\* primary collection is given
FanOut(primary, secondary) ==
    LET searches == CallsTo("semantic_search")
        answers == CallsTo("responder.generate_response")
    IN  /\ Len(searches) \in 1..2
        /\ searches[1].args.collection_type = primary
        /\ searches[1].args.top_k = 5
        /\ Len(searches) = 2 =>
              searches[2].args =
                 [collection_type |-> secondary, query |-> searches[1].args.query,
                  top_k |-> 2]
        /\ (\A i \in DOMAIN searches : ~searches[i].raised) =>
              /\ Len(searches) = 2
              /\ Len(answers) = 1
              /\ answers[1].args.retrieved_documents =
                    semantic_search(primary, searches[1].args.query, 5)
                    \o semantic_search(secondary, searches[1].args.query, 2)
        /\ Len(answers) = 1 => (\A i \in DOMAIN searches : ~searches[i].raised)

\* C7: for a RAG-routed message classified CODE, the documents passed to the
\* responder are the top-5 results of the code collection followed by the top-2
\* of the answer collection; for ANSWER the roles are swapped; a turn whose
\* searches both return makes exactly two semantic_search calls, both with the
\* same query string (a search that raises ends the turn).
C7_AsymmetricFanOut ==
    /\ Classified("CODE") => FanOut("code", "answer")
    /\ Classified("ANSWER") => FanOut("answer", "code")

\* C7 witness: a CODE turn with a stored history reached the responder.
C7_Witness ==
    /\ Classified("CODE")
    /\ turn.history # <<>>
    /\ Len(CallsTo("responder.generate_response")) = 1
    /\ Len(CallsTo("responder.generate_response")[1].args.retrieved_documents) = 7

\* C8: when the semantic-router step fails (provider error, prompt rendering
\* error, or a label that is no route), the turn is handled by the
\* CONVERSATIONAL handler and does not raise because of the failure: it raises
\* only if the chat session does.
C8_SemanticFailureIsConversational ==
    SemanticStepFailed =>
        /\ turn.route = "CONVERSATIONAL"
        /\ turn.handler = "handle_conversation"
        /\ Len(CallsTo("ai.send_message")) = 1
        /\ CallsTo("ai.send_message")[1].args =
              [msg |-> turn.message, user_id |-> turn.user_id]
        /\ turn.raised = CallsTo("ai.send_message")[1].raised
        /\ ~turn.raised => turn.result = [response |-> CallsTo("ai.send_message")[1].ret]

\* C8 witness: the provider answered with a label that is no route, and the
\* turn returned the chat reply.
C8_Witness ==
    /\ SemanticStepFailed
    /\ turn.sem = "SMALL_TALK"
    /\ ~turn.raised

\* C9: when the query router returns a value other than CODE, ANSWER or
\* REJECT, the turn raises to the caller with that value, makes no retrieval
\* and no responder call, and no default classification takes the value's
\* place.
C9_UnknownClassificationRaises ==
    \A i \in DOMAIN turn.calls :
        (/\ turn.calls[i].fn = "route_query"
         /\ ~turn.calls[i].raised
         /\ turn.calls[i].ret \notin {"CODE", "ANSWER", "REJECT"}) =>
            /\ turn.raised
            /\ turn.exc = Exc("ValueError", turn.calls[i].ret)
            /\ "classification" \notin DOMAIN turn.result
            /\ Len(CallsTo("semantic_search")) = 0
            /\ Len(CallsTo("responder.generate_response")) = 0
            /\ i = Len(turn.calls)

\* C9 witness: the query router said MAYBE.
C9_Witness ==
    Classified("MAYBE")

\* C10: for two sequential successful turns of one user, the history handed
\* to the second turn's handler is the history handed to the first with the
\* first turn's message appended at the end, cut to the window's last 20
\* earlier messages; no step reorders a stored history or drops its newest
\* entry: it either stays or becomes its last 20 entries plus the new message.
C10_HistoryGrowsInOrder ==
    [][nturns' = nturns + 1 =>
          /\ (turn'.branch = "routed" /\ ~turn'.raised /\ turn'.previous # NoPrevious) =>
                turn'.history =
                   LastN(turn'.previous.history, 20) \o <<turn'.previous.message>>
          /\ \A u \in Users :
                \/ HistoryIn(histories', u) = HistoryIn(histories, u)
                \/ /\ u = turn'.user_id
                   /\ HistoryIn(histories', u) =
                         LastN(HistoryIn(histories, u), 20) \o <<turn'.message>>]_vars

\* C10 witness: a successful turn whose predecessor was handed a history
\* longer than the window, with another user's stored turn in between.
C10_Witness ==
    /\ Routed
    /\ ~turn.raised
    /\ Len(turn.previous.history) > 20
    /\ \E u \in Users : u # turn.user_id /\ HistoryIn(histories, u) # <<>>

\* a call of the last turn made by a handler (not by the semantic-router
\* step) that raised
HandlerStepRaised(t, i) ==
    /\ t.calls[i].raised
    /\ \/ t.calls[i].fn \in {"route_query", "semantic_search",
                             "responder.generate_response", "ai.send_message"}
       \/ /\ t.calls[i].fn = "ai.generate"
          /\ t.calls[i].args.template = "request_attestation"

\* C11: when a handler step of a turn raises (query router, retriever,
\* responder, chat session, instruction generation), generate_response raises
\* that exception to the caller and the stored histories are what they were
\* before the turn.
C11_HandlerFailurePropagates ==
    [][nturns' = nturns + 1 =>
          \A i \in DOMAIN turn'.calls :
              HandlerStepRaised(turn', i) =>
                  /\ turn'.raised
                  /\ turn'.exc.type = turn'.calls[i].ret
                  /\ i = Len(turn'.calls)
                  /\ histories' = histories]_vars

\* C11 witness: the responder raised in a turn of a user with a stored history.
C11_Witness ==
    /\ turn.raised
    /\ turn.history # <<>>
    /\ Len(CallsTo("responder.generate_response")) = 1
    /\ CallsTo("responder.generate_response")[1].raised
    /\ HistoryIn(histories, turn.user_id) = turn.history

----------------------------------------------------------------------------
(* Bot Manager claims *)

\* C12: in the monitor loop every detected death of the Twitter thread makes
\* exactly one call of start_twitter_bot (and the monitor makes no other);
\* after a failed restart "Twitter" is not in active_bots and
\* start_twitter_bot is not called again; after a successful one "Twitter"
\* is in active_bots exactly once.
C12_TwitterRestartOncePerDeath ==
    [][/\ bm'.twitter_deaths_seen - bm.twitter_deaths_seen \in {0, 1}
       /\ bm.main # "start_twitter" =>
              bm'.twitter_starts - bm.twitter_starts
                  = bm'.twitter_deaths_seen - bm.twitter_deaths_seen
       /\ bm.twitter_restart = "failed" =>
              /\ ~Contains(bm.active_bots, "Twitter")
              /\ bm'.twitter_starts = bm.twitter_starts
       /\ bm'.twitter_restart = "ok" => Count(bm'.active_bots, "Twitter") = 1]_vars

\* C12 witness: the monitor restarted Twitter once with success and once
\* without, and goes on supervising Telegram.
C12_Witness ==
    /\ bm.twitter_deaths_seen = 2
    /\ bm.twitter_starts = 3
    /\ bm.twitter_restart = "failed"
    /\ bm.monitor = "sleep"
    /\ bm.active_bots = <<"Telegram">>

\* C13: every unhealthy finding of the monitor shuts the Telegram bot down
\* and makes one restart attempt, and after a failed attempt "Telegram" is
\* not in active_bots, whatever checks and successful restarts came before.
C13_FailedTelegramRestartRemoves ==
    /\ bm.main \notin {"none", "start_twitter", "start_telegram"} =>
           /\ bm.telegram_starts = 1 + bm.telegram_faults_seen
           /\ bm.telegram_shutdowns >= bm.telegram_faults_seen
    /\ bm.telegram_restart = "failed" => ~Contains(bm.active_bots, "Telegram")

\* C14: monitor_bots is over as soon as no bot is active, running is false
\* whenever it is over (empty active list, shutdown, cancellation), and once
\* every adapter dies and no restart succeeds it does come to its end.
C14_MonitorTerminates ==
    /\ [](bm.monitor = "done" => ~bm.running)
    /\ []((bm.monitor # "none" /\ bm.active_bots = <<>>) => bm.monitor = "done")
    /\ (bm.doomed ~> bm.monitor = "done")

\* C14 witness: both adapters died, both restarts failed, and the monitor
\* ended by itself.
C14_Witness ==
    /\ bm.monitor = "done"
    /\ ~bm.cancelled
    /\ bm.doomed
    /\ bm.twitter_restart = "failed"
    /\ bm.telegram_restart = "failed"
    /\ bm.active_bots = <<>>
    /\ ~bm.running

\* Twitter disabled, or one of the four credentials empty
TwitterNotConfigured(settings) ==
    \/ ~settings.enable_twitter
    \/ ~settings.x_api_key
    \/ ~settings.x_api_key_secret
    \/ ~settings.x_access_token
    \/ ~settings.x_access_token_secret

\* Telegram disabled, or the API token empty
TelegramNotConfigured(settings) ==
    ~settings.enable_telegram \/ ~settings.telegram_api_token

\* the call returned false, started no thread or task and left active_bots alone
RefusedStart ==
    /\ bm'.last_start = "False"
    /\ bm'.threads = bm.threads
    /\ bm'.tasks = bm.tasks
    /\ bm'.active_bots = bm.active_bots
    /\ bm'.twitter_thread = bm.twitter_thread
    /\ bm'.telegram_bot = bm.telegram_bot

\* C15: start_twitter_bot with Twitter disabled or a credential empty, and
\* start_telegram_bot with Telegram disabled or the token empty, return
\* false, launch no thread or task and leave active_bots unchanged.
C15_UnconfiguredStartRefused ==
    [][/\ (bm'.twitter_starts = bm.twitter_starts + 1
            /\ TwitterNotConfigured(bm.settings)) => RefusedStart
       /\ (bm'.telegram_starts = bm.telegram_starts + 1
            /\ TelegramNotConfigured(bm.settings)) => RefusedStart]_vars

\* C15 witness: both adapters are enabled, Twitter lacks only the access
\* token secret, Telegram lacks its token, and both starts have returned.
C15_Witness ==
    /\ bm.main = "decide"
    /\ bm.settings = [f \in SettingsFields |->
                          f \notin {"x_access_token_secret", "telegram_api_token"}]
    /\ bm.twitter_starts = 1
    /\ bm.telegram_starts = 1
    /\ bm.last_start = "False"
    /\ bm.active_bots = <<>>

\* C16: async_start returns at once when no adapter became active; otherwise
\* it waits until it is cancelled, then cancels the monitor task, waits for
\* it to end, and only then calls shutdown, once.
C16_AsyncStartLifecycle ==
    [][/\ (bm.main = "decide" /\ bm'.main # "decide") =>
              bm'.main = (IF bm.active_bots = <<>> THEN "returned" ELSE "waiting")
       /\ (bm.main = "waiting" /\ bm'.main # "waiting") => bm'.cancelled
       /\ bm'.shutdowns > bm.shutdowns =>
              /\ bm.cancelled
              /\ bm.monitor_cancels = 1
              /\ bm.monitor = "done"
              /\ bm'.shutdowns = 1
       /\ (bm'.main = "returned" /\ bm'.cancelled) => bm'.shutdowns = 1
       /\ (bm'.main = "returned" /\ ~bm'.cancelled) =>
              bm'.shutdowns = 0 /\ bm'.monitor = "none"]_vars

\* C16 witness: async_start was cancelled while the monitor slept and has
\* returned after one shutdown that stopped the Telegram bot.
C16_Witness ==
    /\ bm.main = "returned"
    /\ bm.cancelled
    /\ bm.monitor = "done"
    /\ bm.monitor_cancels = 1
    /\ bm.shutdowns = 1
    /\ bm.telegram_shutdowns >= 1
    /\ ~bm.running
    /\ ~bm.polling

\* C17: once the lifespan hook has run at startup the application serves
\* and every adapter that is enabled and configured is active and
\* supervised; at shutdown the hook cancels the Bot Manager without raising.
C17_LifespanRunsBotManager ==
    /\ app.phase # "created" =>
           /\ ~TwitterNotConfigured(bm.settings) => bm.twitter_starts > 0
           /\ ~TelegramNotConfigured(bm.settings) => bm.telegram_starts > 0
           /\ bm.active_bots # <<>> => bm.monitor # "none"
    /\ app.phase = "stopped" => app.raised = ""

----------------------------------------------------------------------------
(* Text splitter claims *)

\* C18: data_split called with overlap * 4 > chunk_size fails before it
\* produces any chunk, whatever the content and the separators.
C18_LargeOverlapRejected ==
    (split.pc \notin {"idle", "call"} /\ split.overlap * 4 > split.chunk_size) =>
        /\ split.pc = "failed"
        /\ split.r = <<>>
        /\ split.windows = <<>>

\* C18 witness: a call with a text longer than the chunk size and an overlap
\* of more than a quarter of it has failed.
C18_Witness ==
    /\ split.pc = "failed"
    /\ Len(split.content) > split.chunk_size
    /\ split.chunk_size > 0
    /\ split.overlap * 4 > split.chunk_size
    /\ split.overlap * 2 <= split.chunk_size

\* the text put together again from the windows, each window giving what
\* lies beyond the cuts before it
RECURSIVE Rebuild(_, _, _)
Rebuild(content, windows, reach) ==
    IF windows = <<>> THEN <<>>
    ELSE Slice(content, Max(Head(windows)[1], reach), Head(windows)[2])
         \o Rebuild(content, Tail(windows), Max(reach, Head(windows)[2]))

C20_StartOffsetIncreases ==
    split.pc \in {"loop", "done"} =>
        \A k \in DOMAIN split.starts :
            split.starts[k] < (IF k < Len(split.starts) THEN split.starts[k + 1]
                               ELSE split.i)

----------------------------------------------------------------------------
(* Claims about the document chunk extractor *)

\* the file of the directory with this name
FileNamed(name) == CHOOSE file \in Files : file.name = name

\* the k-th file of the walk is neither Markdown nor code
OtherExtension(name) ==
    suffix(name) \notin {<<".", "m", "d">>, <<".", "m", "d", "x">>, <<".", "j", "s">>, <<".", "s", "o", "l">>, <<".", "p", "y">>}

\* C21: every record returned by get_data, and so every record written to
\* data.json, has a content of at least 30 and fewer than 20000 characters.
\* The filter measures the content before the metadata header is put in front.
C21_ContentLengthInRange ==
    \A k \in DOMAIN ingest.outcomes :
        \A n \in DOMAIN ingest.outcomes[k].records :
            /\ Len(ingest.outcomes[k].records[n].content) >= 30
            /\ Len(ingest.outcomes[k].records[n].content) < 20000

\* the header the claim describes for a record's metadata
C22_Header(meta_data) ==
    <<"<", "m", "e", "t", "a", "d", "a", "t", "a", ">", "\n">>
    \o Concat([k \in DOMAIN meta_data |->
                  upper(meta_data[k][1]) \o <<":", " ">> \o meta_data[k][2] \o <<"\n">>])
    \o <<"<", "/", "m", "e", "t", "a", "d", "a", "t", "a", ">", "\n", "\n">>

\* C22: every record returned by get_data begins with a <metadata> block of one
\* "KEY: value" line per metadata key of the record, the key upper-cased, then
\* the closing marker, then the body; the keys of a record are distinct and, for
\* .md and .mdx files, each is one of file_name, description, keywords, tags,
\* title.
C22_MetadataHeader ==
    \A k \in DOMAIN ingest.outcomes :
        \A n \in DOMAIN ingest.outcomes[k].records :
            LET rec == ingest.outcomes[k].records[n]
                header == C22_Header(rec.meta_data)
            IN /\ startswith(rec.content, header)
               /\ Len(rec.content) - Len(header) >= MinContent
               /\ \A a, b \in DOMAIN rec.meta_data :
                      rec.meta_data[a][1] = rec.meta_data[b][1] => a = b
               /\ suffix(rec.file_name) \in {<<".", "m", "d">>, <<".", "m", "d", "x">>}
                  => \A a \in DOMAIN rec.meta_data :
                         lower(rec.meta_data[a][1])
                             \in {<<"f", "i", "l", "e", "_", "n", "a", "m", "e">>, <<"d", "e", "s", "c", "r", "i", "p", "t", "i", "o", "n">>, <<"k", "e", "y", "w", "o", "r", "d", "s">>,
                                  <<"t", "a", "g", "s">>, <<"t", "i", "t", "l", "e">>}

\* a Markdown file with front matter title, author and Tags and a heading came
\* out with the header of file_name, the heading as title, and Tags
C22_Witness ==
    \E k \in DOMAIN ingest.data :
        /\ ingest.data[k].file_name = <<"g", "u", "i", "d", "e", ".", "m", "d">>
        /\ startswith(ingest.data[k].content,
                      <<"<", "m", "e", "t", "a", "d", "a", "t", "a", ">", "\n", "F", "I", "L", "E", "_", "N", "A", "M", "E", ":", " ", "g", "u", "i", "d", "e", ".", "m", "d", "\n", "T", "I", "T", "L", "E", ":", " ", "H", "e", "a", "d", "\n", "T", "A", "G", "S", ":", " ", "x", "\n", "<", "/", "m", "e", "t", "a", "d", "a", "t", "a", ">", "\n", "\n", "a", "a", "a", "a", "a", "a", "a", " ">>)

\* C23: for a file that is neither Markdown nor code, get_data gives one record
\* tagged answer per chunk of data_split(content, []) that passes the length
\* filter, and the body of the k-th record is the k-th such chunk.
C23_OtherFilesChunked ==
    \A k \in DOMAIN ingest.outcomes :
        (OtherExtension(ingest.walked[k]) /\ ~ingest.outcomes[k].raised) =>
            LET records == ingest.outcomes[k].records
                chunks == SelectSeq(data_split(FileNamed(ingest.walked[k]).text, <<>>,
                                               10 * DefaultOverlap, DefaultOverlap),
                                    LAMBDA c : Len(c) >= MinContent /\ Len(c) < MaxContent)
            IN /\ Len(records) = Len(chunks)
               /\ \A n \in DOMAIN records :
                      /\ records[n].type = "answer"
                      /\ records[n].content
                             = format_metadata(records[n].meta_data) \o chunks[n]

\* C24: when extraction raises for a file, make_data still writes data.json, and
\* data.json holds the records of every other file of the walk, in walk order,
\* and no record of a file that raised.
C24_FailingFileSkipped ==
    ingest.pc = "written" =>
        /\ ingest.data_json
               = Concat([k \in DOMAIN ingest.outcomes |->
                            IF ingest.outcomes[k].raised THEN <<>>
                            ELSE ingest.outcomes[k].records])
        /\ \A n \in DOMAIN ingest.data_json :
               \A k \in DOMAIN ingest.walked :
                   ingest.outcomes[k].raised
                       => ingest.data_json[n].file_name # ingest.walked[k]

\* data.json was written after a walk in which the second file raised and the
\* first gave records
C24_Witness ==
    /\ ingest.pc = "written"
    /\ Len(ingest.walked) = 2
    /\ ~ingest.outcomes[1].raised
    /\ ingest.outcomes[1].records # <<>>
    /\ ingest.outcomes[2].raised
    /\ ingest.data_json = ingest.outcomes[1].records

----------------------------------------------------------------------------
(* Claims about the contract code reader *)

\* C25: get_code_data never returns more than 500 records, however many
\* contracts the corpus holds and however many chunks each splits into.
C25_AtMostCapRecords == code.pc = "returned" => Len(code.r) <= 500

\* C26: every record get_code_data returns is tagged code and has a content of
\* at least 30 and fewer than 20000 characters.
C26_CodeContentLengthInRange ==
    code.pc = "returned" =>
        \A k \in DOMAIN code.r :
            /\ code.r[k].type = "code"
            /\ Len(code.r[k].content) >= 30
            /\ Len(code.r[k].content) < 20000

----------------------------------------------------------------------------
(* Claims about the contract fetcher *)

\* C27: in a run of the contract fetcher a rate-limit delay lies between every
\* two consecutive requests to the explorer: no request follows another
\* without a sleep between them.
C27_DelayBetweenRequests ==
    \A k \in 1 .. Len(fetch.events) - 1 :
        fetch.events[k] = "sleep" \/ fetch.events[k + 1] = "sleep"

\* the addresses of the first n list requests, in the order of the requests
RECURSIVE AddressesOf(_, _)
AddressesOf(requested, n) ==
    IF n = 0 THEN <<>>
    ELSE AddressesOf(requested, n - 1) \o requested[n].result

\* C31: fetch_verified_contracts requests the pages 0, 1, 2, ... in this order;
\* every page before the last requested one answered with contracts; once a
\* page answers with a status other than 200, a body status other than "1" or
\* an empty result, the loop is left, no further page is requested, and the
\* addresses returned are those of the earlier pages in page order.
C31_PagesInOrderUntilFailure ==
    LET requested == fetch.requested
        n == Len(requested)
    IN  /\ \A k \in 1 .. n : requested[k].page = k - 1
        /\ \A k \in 1 .. n - 1 : requested[k].answer = "ok"
        /\ fetch.pc = "list" =>
              \A k \in 1 .. n : requested[k].answer = "ok"
        /\ fetch.pc \in {"sources", "done"} =>
              /\ n >= 1
              /\ requested[n].answer # "ok"
              /\ fetch.addresses = AddressesOf(requested, n - 1)

\* two pages of two contracts each were fetched, then a page failed
C31_Witness ==
    /\ fetch.pc = "sources"
    /\ Len(fetch.requested) = 3
    /\ fetch.requested[3].answer = "status_0"
    /\ Len(fetch.addresses) = 4
    /\ fetch.addresses[1] # fetch.addresses[3]

----------------------------------------------------------------------------
(* Claims about the source synchroniser *)

\* C28: when a run of update_sources follows another and the remote of a source
\* got no commit since the earlier run handled that source, the later run adds
\* no file of that source to its list and does not pull it, whether the earlier
\* run cloned the source, pulled it or left it; when that is so for every
\* source the later run returns the empty list.
C28_SecondRunIsEmpty ==
    \A n \in 2 .. Len(sync.runs) :
        /\ \A s \in DOMAIN Sources :
               sync.runs[n].handled[s].quiet
                   => /\ sync.runs[n].handled[s].did = "none"
                      /\ sync.runs[n].handled[s].files = <<>>
        /\ (\A s \in DOMAIN Sources : sync.runs[n].handled[s].quiet)
               => sync.runs[n].changed_files = <<>>

\* a run returned the empty list right after a run that pulled a source, and
\* the run after the one that cloned a source left that source alone
C28_Witness ==
    /\ \E n \in 2 .. Len(sync.runs) :
          /\ \E s \in DOMAIN Sources :
                /\ sync.runs[n - 1].handled[s].did = "pull"
                /\ sync.runs[n - 1].handled[s].files = <<<<"a">>, <<"b">>>>
          /\ \A s \in DOMAIN Sources : sync.runs[n].handled[s].quiet
          /\ sync.runs[n].changed_files = <<>>
    /\ \E s \in DOMAIN Sources :
          /\ sync.runs[1].handled[s].did = "clone"
          /\ sync.runs[2].handled[s].quiet
          /\ sync.runs[2].handled[s].did = "none"

----------------------------------------------------------------------------
(* Claims about the chat endpoint *)

\* C29 as stated: the endpoint sets a user_id cookie exactly when the request
\* carried none, and a request that carried one calls generate_response with
\* the cookie's value and sets no cookie.
C29_CookieSetExactlyWhenAbsent ==
    \A k \in DOMAIN http.log :
        /\ http.log[k].set_cookie.present <=> ~http.log[k].cookie.present
        /\ http.log[k].cookie.present
               => http.log[k].user_id = http.log[k].cookie.value

\* C29 amended: the endpoint sets a user_id cookie exactly when the request
\* carried none or an empty one; the value is "chat-" and a new UUID, used by
\* no earlier request, and generate_response is called with it. A request with
\* a non-empty cookie calls generate_response with the cookie's value and sets
\* no cookie, so two requests with the same non-empty cookie use one user_id.
C29_CookieSetWhenAbsentOrEmpty ==
    /\ \A k \in DOMAIN http.log :
          LET q == http.log[k]
              carried == q.cookie.present /\ q.cookie.value # ""
          IN /\ q.set_cookie.present <=> ~carried
             /\ ~carried => /\ q.set_cookie.value = "chat-" \o q.uuid
                            /\ q.user_id = q.set_cookie.value
                            /\ \A j \in 1 .. k - 1 :
                                   /\ http.log[j].user_id # q.user_id
                                   /\ http.log[j].cookie.value # q.user_id
             /\ carried => q.user_id = q.cookie.value
    /\ \A j, k \in DOMAIN http.log :
          (/\ http.log[j].cookie = http.log[k].cookie
           /\ http.log[k].cookie.present
           /\ http.log[k].cookie.value # "")
              => http.log[j].user_id = http.log[k].user_id
    /\ http.log # <<>> => turn.user_id = http.log[Len(http.log)].user_id

\* a request without cookie got an identifier, a request with an empty cookie
\* got another, and a request that sent the first identifier back read the
\* history the first request stored
C29_Witness ==
    /\ Len(http.log) = 3
    /\ ~http.log[1].cookie.present
    /\ http.log[1].set_cookie = Cookie("chat-u1")
    /\ http.log[2].cookie = Cookie("")
    /\ http.log[2].set_cookie = Cookie("chat-u2")
    /\ http.log[3].cookie = Cookie("chat-u1")
    /\ ~http.log[3].set_cookie.present
    /\ turn.user_id = "chat-u1"
    /\ turn.history # <<>>

----------------------------------------------------------------------------
(* Claims about the iterations of data_split *)

\* sep lies in text at offset k, wholly inside [lo, hi)
OccursAt(text, sep, k, lo, hi) ==
    /\ lo <= k
    /\ k + Len(sep) <= hi
    /\ k + Len(sep) <= Len(text)
    /\ SubSeq(text, k + 1, k + Len(sep)) = sep

\* the separators of the list that occur in [lo, hi), by their place in the list
Occurring(text, seps, lo, hi) ==
    {p \in DOMAIN seps : \E k \in lo .. hi - 1 : OccursAt(text, seps[p], k, lo, hi)}

\* the first occurrence in [lo, hi) of the first separator of the list that
\* occurs there, or the fallback when none does
FirstOfBest(text, seps, lo, hi, fallback) ==
    LET occurring == Occurring(text, seps, lo, hi) IN
    IF occurring = {} THEN fallback
    ELSE LET best == CHOOSE p \in occurring : \A q \in occurring : p <= q
         IN CHOOSE k \in lo .. hi - 1 :
                /\ OccursAt(text, seps[best], k, lo, hi)
                /\ \A m \in lo .. k - 1 : ~OccursAt(text, seps[best], m, lo, hi)

\* the start that followed the n-th iteration
StartAfter(n) == IF n < Len(split.starts) THEN split.starts[n + 1] ELSE split.i

\* C30: in every iteration of data_split from start i, the cut j is the first
\* occurrence in [i + chunk_size - 2 * overlap, i + chunk_size) of the first
\* separator of the list (the caller's, then "\n\n", "\n", " ") that occurs
\* there, and i + chunk_size - overlap when none occurs; the next start is the
\* first occurrence in [j - overlap - overlap \div 4, j - overlap + overlap \div 4)
\* of the first separator that occurs there, and j - overlap when none occurs.
C30_CutAndRealign ==
    \A n \in DOMAIN split.starts :
        LET i == split.starts[n]
            j == split.windows[n][2]
        IN /\ j = FirstOfBest(split.content, split.seps,
                              i + split.chunk_size - 2 * split.overlap,
                              i + split.chunk_size,
                              i + split.chunk_size - split.overlap)
           /\ StartAfter(n)
                  = FirstOfBest(split.content, split.seps,
                                j - split.overlap - split.overlap \div 4,
                                j - split.overlap + split.overlap \div 4,
                                j - split.overlap)

\* an iteration cut at a separator although another, later in the list, occurs
\* earlier in its window, and moved the next start from j - overlap to a
\* separator
C30_Witness ==
    /\ split.pc = "done"
    /\ \E n \in DOMAIN split.starts :
          LET i == split.starts[n]
              j == split.windows[n][2]
              lo == i + split.chunk_size - 2 * split.overlap
          IN /\ \E p \in DOMAIN split.seps, k \in lo .. j - 1 :
                    OccursAt(split.content, split.seps[p], k, lo, i + split.chunk_size)
             /\ StartAfter(n) # j - split.overlap

----------------------------------------------------------------------------
(* Claims about the Telegram allow-list *)

\* the positions that bound the comma-separated entries of a text
EntryBounds(text) ==
    {0, Len(text) + 1} \cup {k \in DOMAIN text : text[k] = ","}

\* the entry that starts after bound a: the characters up to the next bound,
\* without the blanks around them
EntryAfter(text, a) ==
    LET b == CHOOSE c \in EntryBounds(text) :
                 /\ c > a
                 /\ ~\E d \in EntryBounds(text) : a < d /\ d < c
        inner == {k \in a + 1 .. b - 1 : text[k] \notin Whitespace}
    IN  IF inner = {} THEN <<>>
        ELSE SubSeq(text, CHOOSE k \in inner : \A m \in inner : k <= m,
                          CHOOSE k \in inner : \A m \in inner : k >= m)

\* the non-blank entries of a text from bound a on, in their order
RECURSIVE NonBlankEntries(_, _)
NonBlankEntries(text, a) ==
    IF a > Len(text) THEN <<>>
    ELSE LET next == CHOOSE c \in EntryBounds(text) :
                        /\ c > a
                        /\ ~\E d \in EntryBounds(text) : a < d /\ d < c
             entry == EntryAfter(text, a)
         IN  (IF entry = <<>> THEN <<>> ELSE <<entry>>)
             \o NonBlankEntries(text, next)

\* C32: Settings.telegram_allowed_user_ids returns the integers of the
\* non-blank comma-separated entries, in their order, when every one of them
\* parses as an integer; it returns the empty list when the text is empty or
\* when an entry does not parse.
C32_AllowedUserIds ==
    allowed.read =>
        LET entries == NonBlankEntries(allowed.telegram_allowed_users, 0)
        IN  IF \A k \in DOMAIN entries : int_parses(entries[k])
            THEN /\ Len(allowed.user_ids) = Len(entries)
                 /\ \A k \in DOMAIN entries : allowed.user_ids[k] = int(entries[k])
            ELSE allowed.user_ids = <<>>

\* two integers, one of them negative, are returned in their order
C32_Witness ==
    /\ allowed.read
    /\ allowed.telegram_allowed_users = <<"2", ",", "-", "1">>
    /\ allowed.user_ids = <<2, -1>>

\* C35: when telegram_allowed_users is a non-empty text, the list the Bot
\* Manager passes to the Telegram adapter as allowed_user_ids is not empty.
C35_ConfiguredListNotEmpty ==
    allowed.started /\ allowed.telegram_allowed_users # <<>> =>
        allowed.allowed_user_ids # <<>>

----------------------------------------------------------------------------
(* Claims about the active list of the Bot Manager *)

\* C33: whatever starts, health checks and restarts of the adapters took
\* place, active_bots holds "Twitter" at most once and "Telegram" at most once.
C33_ActiveBotsWithoutDuplicates ==
    /\ Count(bm.active_bots, "Twitter") <= 1
    /\ Count(bm.active_bots, "Telegram") <= 1

----------------------------------------------------------------------------
(* Claims about the frame of a turn *)

\* C34: a generate_response turn for a user, whatever its route and outcome,
\* leaves the stored history of every other user id as it was: a user with a
\* history keeps that history, a user without one gets none.
C34_OtherHistoriesUntouched ==
    [][\A user_id \in Users \ {turn'.user_id} :
          /\ (user_id \in DOMAIN histories') = (user_id \in DOMAIN histories)
          /\ user_id \in DOMAIN histories =>
                histories'[user_id] = histories[user_id]]_vars

\* a turn of one user was stored while another user has a different history
C34_Witness ==
    /\ turn.store
    /\ \E other \in Users \ {turn.user_id} :
          /\ other \in DOMAIN histories
          /\ turn.user_id \in DOMAIN histories
          /\ histories[other] # histories[turn.user_id]
          /\ Len(histories[other]) = 2

----------------------------------------------------------------------------
(* Claims about a failed attestation request *)

\* the last turn went to handle_attestation and the generation of the
\* instructions raised
InstructionsFailed ==
    /\ turn.handler = "handle_attestation"
    /\ turn.raised
    /\ \E k \in DOMAIN turn.calls :
          turn.calls[k].fn = "ai.generate" /\ turn.calls[k].raised

\* C38: when the generation of the attestation instructions fails inside
\* handle_attestation, the pending-attestation flag is false after the turn,
\* the user's stored history is what it was before the turn, and the next
\* message is routed, not consumed as an attestation payload.
C38_FailedInstructionsLeaveNoTrace ==
    /\ [](InstructionsFailed =>
             /\ ~attestation_requested
             /\ get_history(turn.user_id) = turn.history
             /\ turn.user_id \in DOMAIN histories => turn.history # <<>>)
    /\ [][InstructionsFailed => turn'.branch = "routed"]_vars

\* the instructions failed in a turn of a user who has a stored history, and
\* a further turn can follow
C38_Witness ==
    /\ InstructionsFailed
    /\ Len(turn.history) = 1
    /\ nturns = 2

----------------------------------------------------------------------------
(* Claims about the length of the chunks *)

\* C39: in a call of data_split that passed the assertion overlap * 4 <=
\* chunk_size, every chunk emitted so far has at most chunk_size characters,
\* whatever the content and the separators.
C39_ChunksWithinChunkSize ==
    split.pc \in {"loop", "done"} =>
        \A k \in DOMAIN split.r : Len(split.r[k]) <= split.chunk_size

----------------------------------------------------------------------------
(* Claims about the two orchestrators *)

\* the call of this front door moved in the step
Moved(door) ==
    /\ doors.pc = "serving"
    /\ \/ doors'.local[door] # doors.local[door]
       \/ /\ Len(doors'.log) > Len(doors.log)
          /\ doors'.log[Len(doors'.log)].door = door

\* the orchestrator that a front door does not call
OtherRouter(door) ==
    IF router_of(door) = "chat_router" THEN "bot_router" ELSE "chat_router"

\* C36: the HTTP orchestrator and the bot orchestrator built by create_app
\* hold different Vtpm objects and different history dicts, and no step of a
\* turn through one of them, whether it sets or clears the flag or stores a
\* history, changes the flag or the histories the other one reads.
C36_SeparateFlagsAndHistories ==
    /\ [](doors.pc = "serving" =>
             /\ doors.routers.chat_router.attestation
                    # doors.routers.bot_router.attestation
             /\ doors.routers.chat_router.histories
                    # doors.routers.bot_router.histories)
    /\ [][\A door \in Doors :
             Moved(door) =>
                 Observed(doors', OtherRouter(door)) = Observed(doors, OtherRouter(door))]_vars

\* an attestation is pending on the HTTP orchestrator and not on the bot
\* orchestrator, which holds a history for a user the HTTP one never saw
C36_Witness ==
    /\ doors.pc = "serving"
    /\ Observed(doors, "chat_router").attestation_requested
    /\ ~Observed(doors, "bot_router").attestation_requested
    /\ \E user_id \in Users :
          /\ user_id \in DOMAIN Observed(doors, "bot_router").histories
          /\ user_id \notin DOMAIN Observed(doors, "chat_router").histories

\* C37: when a turn from the Twitter thread and a turn from the event loop
\* for the same user id overlapped on the bot orchestrator and both were
\* stored, the user's stored history holds the messages of both, once the
\* later of the two is complete.
C37_OverlappingTurnsBothStored ==
    doors.pc = "serving" =>
        \A first \in DOMAIN doors.log :
            LET last == Len(doors.log)
                a == doors.log[first]
                b == doors.log[last]
            IN  (/\ first < last
                 /\ {a.door, b.door} = {"twitter", "telegram"}
                 /\ a.user_id = b.user_id
                 /\ a.outcome = "stored" /\ b.outcome = "stored"
                 /\ b.seen < first)
                => /\ Contains(Observed(doors, "bot_router").histories[b.user_id],
                               a.message)
                   /\ Contains(Observed(doors, "bot_router").histories[b.user_id],
                               b.message)

====
